---- MODULE Spec2Model ----
(***************************************************************************)
(* Watercolor Dissolution: the taxonomy tables and the operations of       *)
(* watercolor_dissolution_mcp.py as a state machine.                       *)
(*                                                                         *)
(* Every operation computes its answer from its arguments and the taxonomy *)
(* tables.  One action per operation: it takes the server from "idle" to   *)
(* "returned", recording the call and the record the operation returns (or *)
(* the exception it raises).  Return hands the answer to the transport and *)
(* makes the server idle again.                                            *)
(*                                                                         *)
(* Numbers.  Python floats are modelled in fixed point: the integer v      *)
(* stands for v / ONE (ONE = 10^6).  The taxonomy coordinates are          *)
(* hundredths, the intensity factors tenths and the emphasis shifts        *)
(* hundredths, so the arithmetic of map_dissolution_parameters is exact in *)
(* this representation.  round(v, 4) is Round4 (to the nearest multiple of *)
(* 100, halves to even).  TLC integers are 32 bit, so products of two      *)
(* fixed-point numbers go through MulFix.                                  *)
(*                                                                         *)
(* Where the fixed point and the floats part.  math.sin is a Taylor series *)
(* good to about 10^-6, so a t that lies within that of a rounding         *)
(* boundary may round the other way.  _nearest_visual_type compares exact  *)
(* distances: where two types are exactly equidistant the first declared   *)
(* is taken, while the floats may order the two either way.  A float       *)
(* result such as 0.3 - 0.1 = 0.19999999999999998 is the exact 0.2 here.   *)
(* None of the states map_dissolution_parameters computes lies on a        *)
(* threshold of the edge, hydrology or contrast selection where the two    *)
(* arithmetics would disagree.                                             *)
(*                                                                         *)
(* Text.  A text is a sequence of one-character strings; `term in text`    *)
(* is Contains, the search for a contiguous subsequence.                   *)
(***************************************************************************)
EXTENDS Integers, Sequences, FiniteSets, TLC

\* ------------------------------------------------------------------ bounds

\* Input texts are at most MaxWords phrases of Lexicon joined by blanks.
MaxWords == 2
\* compute_dissolution_trajectory is called with num_steps in -1 .. MaxSteps.
MaxSteps == 4
\* generate_dissolution_rhythmic_sequence: steps_per_cycle in 0 .. MaxPeriod.
MaxPeriod == 8
\* generate_dissolution_rhythmic_sequence: num_cycles in 0 .. MaxCycles.
MaxCycles == 2
\* The prompt generators are called with keyframe_count in 0 .. MaxKeyframes.
MaxKeyframes == 3

\* ------------------------------------------------------------- fixed point

\* 1.0
ONE == 1000000

Abs(x) == IF x < 0 THEN -x ELSE x

Min2(x, y) == IF x < y THEN x ELSE y

Max2(x, y) == IF x > y THEN x ELSE y

\* n / d rounded to the nearest integer, halves to the even neighbour (d > 0).
RoundDiv(n, d) ==
  LET q == n \div d
      r == n % d
  IN  IF 2 * r < d THEN q
      ELSE IF 2 * r > d THEN q + 1
      ELSE IF q % 2 = 0 THEN q ELSE q + 1

\* round(v, 4)
Round4(v) == 100 * RoundDiv(v, 100)

\* round(v, 3)
Round3(v) == 1000 * RoundDiv(v, 1000)

\* A dict built by a comprehension: the function f with every value computed
\* when the dict is built.
Dict(f) == f @@ << >>

\* x * y for two fixed-point numbers, |x| <= 2 * ONE, without leaving 32 bits.
MulFix(x, y) ==
  LET hi == y \div 1000
      lo == y % 1000
  IN  RoundDiv(x * hi + RoundDiv(x * lo, 1000), 1000)

\* A natural number beyond 32 bits, as two digits to the base ONE.
Wide(hi, lo) == [ hi |-> hi, lo |-> lo ]

WideAdd(x, y) ==
  Wide(x.hi + y.hi + (x.lo + y.lo) \div ONE, (x.lo + y.lo) % ONE)

WideLess(x, y) == x.hi < y.hi \/ (x.hi = y.hi /\ x.lo < y.lo)

\* d * d, exactly.
WideSquare(d) ==
  LET u == Abs(d) \div 1000
      v == Abs(d) % 1000
      c == (2 * u * v) \div 1000
      e == (2 * u * v) % 1000
      m == 1000 * e + v * v
  IN  Wide(u * u + c + m \div ONE, m % ONE)

\* The largest r in lo .. hi with r * r <= n.
RECURSIVE WideSqrtIter(_, _, _)
WideSqrtIter(n, lo, hi) ==
  IF lo >= hi THEN lo
  ELSE LET mid == (lo + hi + 1) \div 2
       IN  IF WideLess(n, WideSquare(mid)) THEN WideSqrtIter(n, lo, mid - 1)
           ELSE WideSqrtIter(n, mid, hi)

\* math.sqrt of n / ONE^2 as a fixed-point number: the integer nearest to
\* the square root of n (n < 16 * ONE^2).
WideSqrt(n) ==
  LET r == WideSqrtIter(n, 0, 4 * ONE)
  IN  IF WideLess(WideAdd(WideSquare(r), Wide(r \div ONE, r % ONE)), n)
      THEN r + 1 ELSE r

\* ---------------------------------------------------------------- taxonomy

PARAMETER_NAMES ==
  << "dissolution_rate", "edge_coherence", "substrate_visibility",
     "pigment_hydrology", "anchor_density" >>

ParamSet == { PARAMETER_NAMES[i] : i \in 1..Len(PARAMETER_NAMES) }

\* A point given in hundredths, as the source writes its coordinates.
Pt(dr, ec, sv, ph, ad) ==
  [ dissolution_rate |-> dr * 10000, edge_coherence |-> ec * 10000,
    substrate_visibility |-> sv * 10000, pigment_hydrology |-> ph * 10000,
    anchor_density |-> ad * 10000 ]

\* The keys of VISUAL_TYPES in declaration (dict iteration) order.
TYPE_IDS ==
  << "editorial_wash", "contested_boundary", "full_dissolution",
     "ghost_impression", "substrate_emergence", "chromatic_flood" >>

TypeIdSet == { TYPE_IDS[i] : i \in 1..Len(TYPE_IDS) }

\* The keys of CANONICAL_STATES in declaration order.
CANONICAL_IDS ==
  << "editorial_wash", "light_wash", "contested_boundary", "ghost_impression",
     "advancing_dissolution", "substrate_emergence", "full_dissolution",
     "saturating_flood", "chromatic_flood", "restrained_study" >>

CanonicalIdSet == { CANONICAL_IDS[i] : i \in 1..Len(CANONICAL_IDS) }

\* The keys of ATTRACTOR_PRESETS in declaration order.
ATTRACTOR_IDS ==
  << "editorial_discipline", "creative_tension", "painterly_freedom",
     "spectral_trace", "breath_of_paper", "saturated_tide", "balanced_study" >>

AttractorIdSet == { ATTRACTOR_IDS[i] : i \in 1..Len(ATTRACTOR_IDS) }

\* The keys of RHYTHMIC_PRESETS in declaration order.
PRESET_IDS ==
  << "fidelity_breathing", "hydrology_pulse", "substrate_tide",
     "edge_negotiation", "dissolution_sweep" >>

PresetIdSet == { PRESET_IDS[i] : i \in 1..Len(PRESET_IDS) }

\* The coordinate dicts the module creates at import: the six "center" dicts
\* of VISUAL_TYPES and the four "coordinates" dicts written out in
\* CANONICAL_STATES.  Every other table entry refers to one of these objects.
InitialPoints ==
  [ editorial_wash        |-> Pt(15, 85, 10, 20, 90),
    contested_boundary    |-> Pt(50, 50, 35, 50, 50),
    full_dissolution      |-> Pt(85, 15, 75, 85, 10),
    ghost_impression      |-> Pt(65, 75, 50, 10, 20),
    substrate_emergence   |-> Pt(70, 30, 85, 40, 30),
    chromatic_flood       |-> Pt(90, 20, 50, 95, 15),
    light_wash            |-> Pt(27, 73, 18, 30, 77),
    advancing_dissolution |-> Pt(68, 33, 55, 68, 30),
    saturating_flood      |-> Pt(88, 18, 63, 90, 13),
    restrained_study      |-> Pt(68, 53, 68, 25, 25) ]

\* VISUAL_TYPES: "center" names the type's own coordinate dict.
VISUAL_TYPES ==
  [ tid \in TypeIdSet |-> [ center |-> tid ] ]

\* Variant of CANONICAL_STATES with the 4 interpolated states only.
CANONICAL_STATES_InterpolatedOnly ==
  [ cid \in CanonicalIdSet \ TypeIdSet |->
      [ coordinates |-> cid, source |-> "interpolated" ] ]

\* Variant of CANONICAL_STATES whose entry editorial_wash carries coordinates
\* of its own (those of light_wash) instead of the type's center dict.
CANONICAL_STATES_OwnCoordinates ==
  [ cid \in CanonicalIdSet |->
      [ coordinates |-> IF cid = "editorial_wash" THEN "light_wash" ELSE cid,
        source |-> IF cid \in TypeIdSet THEN "visual_type" ELSE "interpolated" ] ]

\* CANONICAL_STATES: "coordinates" is the center dict of the visual type of
\* the same name (source = "visual_type") or the state's own dict.
CANONICAL_STATES ==
  [ cid \in CanonicalIdSet |->
      [ coordinates |-> cid,
        source |-> IF cid \in TypeIdSet THEN "visual_type" ELSE "interpolated" ] ]

\* ATTRACTOR_PRESETS: "state" is a visual type's center dict, or (for
\* balanced_study) the coordinates dict of restrained_study.
ATTRACTOR_PRESETS ==
  [ editorial_discipline |-> [ state |-> "editorial_wash",      basin_radius |-> 250000 ],
    creative_tension     |-> [ state |-> "contested_boundary",  basin_radius |-> 200000 ],
    painterly_freedom    |-> [ state |-> "full_dissolution",    basin_radius |-> 250000 ],
    spectral_trace       |-> [ state |-> "ghost_impression",    basin_radius |-> 200000 ],
    breath_of_paper      |-> [ state |-> "substrate_emergence", basin_radius |-> 220000 ],
    saturated_tide       |-> [ state |-> "chromatic_flood",     basin_radius |-> 250000 ],
    balanced_study       |-> [ state |-> "restrained_study",    basin_radius |-> 180000 ] ]

RHYTHMIC_PRESETS ==
  [ fidelity_breathing |-> [ state_a |-> "editorial_wash",   state_b |-> "full_dissolution",    period |-> 20 ],
    hydrology_pulse    |-> [ state_a |-> "ghost_impression", state_b |-> "chromatic_flood",     period |-> 16 ],
    substrate_tide     |-> [ state_a |-> "chromatic_flood",  state_b |-> "substrate_emergence", period |-> 18 ],
    edge_negotiation   |-> [ state_a |-> "editorial_wash",   state_b |-> "contested_boundary",  period |-> 22 ],
    dissolution_sweep  |-> [ state_a |-> "editorial_wash",   state_b |-> "chromatic_flood",     period |-> 24 ] ]

\* VISUAL_TYPES[tid]["name"]
TYPE_NAMES ==
  [ editorial_wash      |-> "Editorial Wash",
    contested_boundary  |-> "Contested Boundary",
    full_dissolution    |-> "Full Dissolution",
    ghost_impression    |-> "Ghost Impression",
    substrate_emergence |-> "Substrate Emergence",
    chromatic_flood     |-> "Chromatic Flood" ]

\* VISUAL_TYPES[tid]["keywords"], each list (8 phrases) given by its first
\* phrase.
TYPE_KEYWORDS ==
  [ editorial_wash      |-> "controlled color accent on photographic base",
    contested_boundary  |-> "competing visual regimes in unresolved tension",
    full_dissolution    |-> "complete painterly takeover of photographic source",
    ghost_impression    |-> "faded dry-technique dissolution preserving edge structure",
    substrate_emergence |-> "paper as primary subject over pigment content",
    chromatic_flood     |-> "maximum wet-on-wet saturation flooding surface" ]

\* The keys of the descriptive catalogs.
EDGE_MODES ==
  { "architectural_hard", "cauliflower_backrun", "feathered_bleed",
    "silhouette_cut", "granulation_boundary", "wet_lift" }

HYDROLOGY_STATES ==
  { "dry_brush", "controlled_wash", "wet_on_dry", "wet_on_wet", "flooding" }

SUBSTRATE_TYPES ==
  { "hot_press", "cold_press", "rough", "yupo", "masa" }

CONTRAST_CURVES ==
  { "photographic_preserved", "lifted_wash", "high_key_dissolution",
    "anchor_contrast", "granulation_curve", "flood_flat" }

\* ------------------------------------------------- classifier term tables

\* classify_dissolution_intent: keyword terms per visual type, in dict order
dissolution_terms ==
  <<
    [id |-> "editorial_wash", terms |-> <<
       <<"e","d","i","t","o","r","i","a","l">>,   \* "editorial"
       <<"m","a","g","a","z","i","n","e">>,   \* "magazine"
       <<"c","o","n","t","r","o","l","l","e","d">>,   \* "controlled"
       <<"s","h","a","r","p"," ","s","u","b","j","e","c","t">>,   \* "sharp subject"
       <<"a","c","c","e","n","t">>,   \* "accent"
       <<"s","e","l","e","c","t","i","v","e">>,   \* "selective"
       <<"s","u","b","t","l","e">>,   \* "subtle"
       <<"r","e","s","t","r","a","i","n","e","d">>   \* "restrained"
    >>],
    [id |-> "contested_boundary", terms |-> <<
       <<"t","e","n","s","i","o","n">>,   \* "tension"
       <<"b","e","t","w","e","e","n">>,   \* "between"
       <<"b","o","t","h">>,   \* "both"
       <<"n","e","i","t","h","e","r">>,   \* "neither"
       <<"o","s","c","i","l","l","a","t">>,   \* "oscillat"
       <<"c","o","e","x","i","s","t">>,   \* "coexist"
       <<"c","o","m","p","e","t","e">>,   \* "compete"
       <<"m","u","r","a","l">>,   \* "mural"
       <<"b","o","u","n","d","a","r","y">>,   \* "boundary"
       <<"m","i","x">>   \* "mix"
    >>],
    [id |-> "full_dissolution", terms |-> <<
       <<"l","o","o","s","e">>,   \* "loose"
       <<"d","i","s","s","o","l","v","e">>,   \* "dissolve"
       <<"p","a","i","n","t","e","r","l","y">>,   \* "painterly"
       <<"w","a","t","e","r","c","o","l","o","r">>,   \* "watercolor"
       <<"a","b","s","t","r","a","c","t">>,   \* "abstract"
       <<"b","l","o","o","m">>,   \* "bloom"
       <<"b","a","c","k","r","u","n">>,   \* "backrun"
       <<"c","o","m","p","l","e","t","e">>   \* "complete"
    >>],
    [id |-> "ghost_impression", terms |-> <<
       <<"g","h","o","s","t">>,   \* "ghost"
       <<"f","a","d","e","d">>,   \* "faded"
       <<"b","l","u","e","p","r","i","n","t">>,   \* "blueprint"
       <<"t","r","a","c","e">>,   \* "trace"
       <<"s","k","e","l","e","t","o","n">>,   \* "skeleton"
       <<"p","a","l","i","m","p","s","e","s","t">>,   \* "palimpsest"
       <<"b","l","e","a","c","h">>,   \* "bleach"
       <<"d","r","y">>,   \* "dry"
       <<"c","r","i","s","p"," ","e","d","g","e">>   \* "crisp edge"
    >>],
    [id |-> "substrate_emergence", terms |-> <<
       <<"p","a","p","e","r">>,   \* "paper"
       <<"w","h","i","t","e"," ","s","p","a","c","e">>,   \* "white space"
       <<"n","e","g","a","t","i","v","e">>,   \* "negative"
       <<"m","i","n","i","m","a","l">>,   \* "minimal"
       <<"r","e","s","t","r","a","i","n","t">>,   \* "restraint"
       <<"b","r","e","a","t","h">>,   \* "breath"
       <<"m","a"," ">>,   \* "ma "
       <<"s","p","a","r","s","e">>,   \* "sparse"
       <<"e","m","p","t","y">>   \* "empty"
    >>],
    [id |-> "chromatic_flood", terms |-> <<
       <<"f","l","o","o","d">>,   \* "flood"
       <<"s","a","t","u","r","a","t","e","d">>,   \* "saturated"
       <<"w","e","t">>,   \* "wet"
       <<"d","r","i","p">>,   \* "drip"
       <<"p","o","u","r">>,   \* "pour"
       <<"e","x","p","r","e","s","s","i","o","n","i","s","t">>,   \* "expressionist"
       <<"b","o","l","d">>,   \* "bold"
       <<"v","i","v","i","d">>,   \* "vivid"
       <<"m","a","x","i","m","u","m">>,   \* "maximum"
       <<"i","n","t","e","n","s","e">>   \* "intense"
    >>]
  >>

\* classify_dissolution_intent: hydrology terms per category, in dict order
hydrology_terms ==
  <<
    [id |-> "dry", terms |-> <<
       <<"d","r","y"," ","b","r","u","s","h">>,   \* "dry brush"
       <<"d","r","y">>,   \* "dry"
       <<"t","e","x","t","u","r","e","d">>,   \* "textured"
       <<"b","r","o","k","e","n">>,   \* "broken"
       <<"s","c","r","a","t","c","h","y">>   \* "scratchy"
    >>],
    [id |-> "controlled", terms |-> <<
       <<"c","o","n","t","r","o","l","l","e","d">>,   \* "controlled"
       <<"e","v","e","n">>,   \* "even"
       <<"s","m","o","o","t","h">>,   \* "smooth"
       <<"b","a","l","a","n","c","e","d">>,   \* "balanced"
       <<"s","t","a","n","d","a","r","d">>   \* "standard"
    >>],
    [id |-> "wet_on_dry", terms |-> <<
       <<"l","a","y","e","r","e","d">>,   \* "layered"
       <<"c","r","i","s","p"," ","l","a","y","e","r">>,   \* "crisp layer"
       <<"h","a","r","d"," ","e","d","g","e"," ","l","a","y","e","r">>,   \* "hard edge layer"
       <<"g","l","a","z","i","n","g">>   \* "glazing"
    >>],
    [id |-> "wet_on_wet", terms |-> <<
       <<"w","e","t"," ","o","n"," ","w","e","t">>,   \* "wet on wet"
       <<"d","i","f","f","u","s","e">>,   \* "diffuse"
       <<"m","e","r","g","e">>,   \* "merge"
       <<"s","o","f","t"," ","e","d","g","e">>,   \* "soft edge"
       <<"b","l","o","o","m">>   \* "bloom"
    >>],
    [id |-> "flooding", terms |-> <<
       <<"f","l","o","o","d">>,   \* "flood"
       <<"d","r","i","p">>,   \* "drip"
       <<"g","r","a","v","i","t","y">>,   \* "gravity"
       <<"p","o","u","r">>,   \* "pour"
       <<"c","a","p","i","l","l","a","r","y">>,   \* "capillary"
       <<"r","u","n">>   \* "run"
    >>]
  >>

\* classify_dissolution_intent: the four substrate term lists of the if/elif chain, in order
substrate_terms ==
  <<
    [id |-> "hot_press", terms |-> <<
       <<"s","m","o","o","t","h">>,   \* "smooth"
       <<"f","i","n","e"," ","d","e","t","a","i","l">>,   \* "fine detail"
       <<"i","l","l","u","s","t","r","a","t","i","o","n">>   \* "illustration"
    >>],
    [id |-> "rough", terms |-> <<
       <<"r","o","u","g","h">>,   \* "rough"
       <<"t","e","x","t","u","r","e">>,   \* "texture"
       <<"e","x","p","r","e","s","s","i","v","e">>   \* "expressive"
    >>],
    [id |-> "masa", terms |-> <<
       <<"j","a","p","a","n","e","s","e">>,   \* "japanese"
       <<"s","u","m","i">>,   \* "sumi"
       <<"i","n","k"," ","w","a","s","h">>   \* "ink wash"
    >>],
    [id |-> "yupo", terms |-> <<
       <<"e","x","p","e","r","i","m","e","n","t","a","l">>,   \* "experimental"
       <<"s","y","n","t","h","e","t","i","c">>,   \* "synthetic"
       <<"y","u","p","o">>   \* "yupo"
    >>]
  >>

Lexicon ==
  {
    <<"d","r","y">>,   \* "dry"
    <<"f","l","o","o","d">>,   \* "flood"
    <<"e","d","i","t","o","r","i","a","l"," ","m","a","g","a","z","i","n","e"," ","c","o","n","t","r","o","l","l","e","d"," ","s","e","l","e","c","t","i","v","e">>,   \* "editorial magazine controlled selective"
    <<"s","u","b","t","l","e"," ","r","e","s","t","r","a","i","n","e","d"," ","a","c","c","e","n","t">>,   \* "subtle restrained accent"
    <<"b","a","c","k","r","u","n"," ","b","l","o","o","m">>,   \* "backrun bloom"
    <<"t","e","n","s","i","o","n">>,   \* "tension"
    <<"s","m","o","o","t","h"," ","t","e","x","t","u","r","e">>,   \* "smooth texture"
    <<"l","a","y","e","r","e","d">>   \* "layered"
  }

\* ------------------------------------------------ decomposer term tables

\* decompose_dissolution_from_description: keyword fragments per visual type
fragment_map ==
  <<
    [id |-> "editorial_wash", terms |-> <<
       <<"e","d","i","t","o","r","i","a","l">>,   \* "editorial"
       <<"m","a","g","a","z","i","n","e">>,   \* "magazine"
       <<"c","o","n","t","r","o","l","l","e","d">>,   \* "controlled"
       <<"s","h","a","r","p">>,   \* "sharp"
       <<"a","c","c","e","n","t">>,   \* "accent"
       <<"s","e","l","e","c","t","i","v","e">>,   \* "selective"
       <<"r","e","s","t","r","a","i","n">>,   \* "restrain"
       <<"s","u","b","t","l","e">>,   \* "subtle"
       <<"d","i","s","c","i","p","l","i","n">>,   \* "disciplin"
       <<"p","h","o","t","o","g","r","a","p","h","i","c">>   \* "photographic"
    >>],
    [id |-> "contested_boundary", terms |-> <<
       <<"t","e","n","s","i","o","n">>,   \* "tension"
       <<"b","e","t","w","e","e","n">>,   \* "between"
       <<"n","e","i","t","h","e","r">>,   \* "neither"
       <<"o","s","c","i","l","l","a","t">>,   \* "oscillat"
       <<"c","o","e","x","i","s","t">>,   \* "coexist"
       <<"c","o","m","p","e","t","e">>,   \* "compete"
       <<"b","o","u","n","d","a","r","y">>,   \* "boundary"
       <<"u","n","r","e","s","o","l","v","e","d">>,   \* "unresolved"
       <<"b","o","t","h">>,   \* "both"
       <<"m","u","r","a","l">>   \* "mural"
    >>],
    [id |-> "full_dissolution", terms |-> <<
       <<"d","i","s","s","o","l","v">>,   \* "dissolv"
       <<"l","o","o","s","e">>,   \* "loose"
       <<"b","l","o","o","m">>,   \* "bloom"
       <<"b","a","c","k","r","u","n">>,   \* "backrun"
       <<"g","r","a","n","u","l","a","t">>,   \* "granulat"
       <<"d","i","f","f","u","s">>,   \* "diffus"
       <<"a","b","s","t","r","a","c","t">>,   \* "abstract"
       <<"p","a","i","n","t","e","r","l","y">>,   \* "painterly"
       <<"w","a","t","e","r","c","o","l","o","r">>,   \* "watercolor"
       <<"p","a","p","e","r"," ","t","e","x","t","u","r","e">>   \* "paper texture"
    >>],
    [id |-> "ghost_impression", terms |-> <<
       <<"g","h","o","s","t">>,   \* "ghost"
       <<"f","a","d","e","d">>,   \* "faded"
       <<"b","l","u","e","p","r","i","n","t">>,   \* "blueprint"
       <<"p","a","l","i","m","p","s","e","s","t">>,   \* "palimpsest"
       <<"t","r","a","c","e">>,   \* "trace"
       <<"s","k","e","l","e","t","o","n">>,   \* "skeleton"
       <<"b","l","e","a","c","h">>,   \* "bleach"
       <<"d","r","y">>,   \* "dry"
       <<"p","a","r","c","h","m","e","n","t">>,   \* "parchment"
       <<"i","r","o","n","-","g","a","l","l">>   \* "iron-gall"
    >>],
    [id |-> "substrate_emergence", terms |-> <<
       <<"p","a","p","e","r">>,   \* "paper"
       <<"w","h","i","t","e"," ","s","p","a","c","e">>,   \* "white space"
       <<"n","e","g","a","t","i","v","e"," ","s","p","a","c","e">>,   \* "negative space"
       <<"m","i","n","i","m","a","l">>,   \* "minimal"
       <<"r","e","s","t","r","a","i","n","t">>,   \* "restraint"
       <<"b","r","e","a","t","h">>,   \* "breath"
       <<"m","a"," ">>,   \* "ma "
       <<"s","p","a","r","s","e">>,   \* "sparse"
       <<"e","m","p","t","y">>,   \* "empty"
       <<"u","n","p","a","i","n","t">>   \* "unpaint"
    >>],
    [id |-> "chromatic_flood", terms |-> <<
       <<"f","l","o","o","d">>,   \* "flood"
       <<"s","a","t","u","r","a","t">>,   \* "saturat"
       <<"w","e","t","-","o","n","-","w","e","t">>,   \* "wet-on-wet"
       <<"d","r","i","p">>,   \* "drip"
       <<"c","a","p","i","l","l","a","r","y">>,   \* "capillary"
       <<"p","o","u","r">>,   \* "pour"
       <<"e","x","p","r","e","s","s","i","o","n","i","s","t">>,   \* "expressionist"
       <<"b","o","l","d"," ","c","o","l","o","r">>,   \* "bold color"
       <<"v","i","v","i","d">>,   \* "vivid"
       <<"c","h","r","o","m","a","t","i","c">>   \* "chromatic"
    >>]
  >>

\* decompose_dissolution_from_description: optical terms per visual type
optical_map ==
  <<
    [id |-> "editorial_wash", terms |-> <<
       <<"m","a","t","t","e">>,   \* "matte"
       <<"o","p","a","q","u","e">>,   \* "opaque"
       <<"p","h","o","t","o","g","r","a","p","h","i","c">>   \* "photographic"
    >>],
    [id |-> "contested_boundary", terms |-> <<
       <<"m","i","x","e","d">>,   \* "mixed"
       <<"v","a","r","i","a","b","l","e">>,   \* "variable"
       <<"h","a","l","a","t","i","o","n">>   \* "halation"
    >>],
    [id |-> "full_dissolution", terms |-> <<
       <<"t","r","a","n","s","l","u","c","e","n","t">>,   \* "translucent"
       <<"d","i","f","f","u","s","e">>,   \* "diffuse"
       <<"p","a","p","e","r"," ","m","a","t","t","e">>   \* "paper matte"
    >>],
    [id |-> "ghost_impression", terms |-> <<
       <<"d","r","y"," ","m","a","t","t","e">>,   \* "dry matte"
       <<"s","e","m","i"," ","t","r","a","n","s","p","a","r","e","n","t">>,   \* "semi transparent"
       <<"n","o"," ","s","c","a","t","t","e","r">>   \* "no scatter"
    >>],
    [id |-> "substrate_emergence", terms |-> <<
       <<"p","a","p","e","r"," ","d","o","m","i","n","a","n","t">>,   \* "paper dominant"
       <<"z","e","r","o"," ","s","c","a","t","t","e","r">>,   \* "zero scatter"
       <<"g","r","o","u","n","d">>   \* "ground"
    >>],
    [id |-> "chromatic_flood", terms |-> <<
       <<"w","e","t"," ","s","a","t","i","n">>,   \* "wet satin"
       <<"m","a","x","i","m","u","m"," ","s","c","a","t","t","e","r">>,   \* "maximum scatter"
       <<"s","a","t","u","r","a","t","e","d">>   \* "saturated"
    >>]
  >>

\* decompose_dissolution_from_description: color terms per visual type
color_map ==
  <<
    [id |-> "editorial_wash", terms |-> <<
       <<"n","e","u","t","r","a","l">>,   \* "neutral"
       <<"m","u","t","e","d">>,   \* "muted"
       <<"e","d","i","t","o","r","i","a","l">>   \* "editorial"
    >>],
    [id |-> "contested_boundary", terms |-> <<
       <<"w","a","r","m">>,   \* "warm"
       <<"a","n","a","l","o","g","o","u","s">>,   \* "analogous"
       <<"a","m","b","e","r">>   \* "amber"
    >>],
    [id |-> "full_dissolution", terms |-> <<
       <<"d","i","l","u","t","e","d">>,   \* "diluted"
       <<"g","r","a","n","u","l","a","t","i","o","n">>,   \* "granulation"
       <<"p","a","p","e","r"," ","w","h","i","t","e">>   \* "paper white"
    >>],
    [id |-> "ghost_impression", terms |-> <<
       <<"f","a","d","e","d">>,   \* "faded"
       <<"e","a","r","t","h">>,   \* "earth"
       <<"p","a","r","c","h","m","e","n","t">>,   \* "parchment"
       <<"t","e","a">>   \* "tea"
    >>],
    [id |-> "substrate_emergence", terms |-> <<
       <<"w","h","i","t","e"," ","d","o","m","i","n","a","n","t">>,   \* "white dominant"
       <<"s","p","a","r","s","e">>,   \* "sparse"
       <<"c","h","r","o","m","a","t","i","c"," ","i","s","l","a","n","d">>   \* "chromatic island"
    >>],
    [id |-> "chromatic_flood", terms |-> <<
       <<"s","a","t","u","r","a","t","e","d">>,   \* "saturated"
       <<"v","i","v","i","d">>,   \* "vivid"
       <<"i","n","t","e","n","s","e">>,   \* "intense"
       <<"b","r","i","g","h","t">>   \* "bright"
    >>]
  >>

\* The phrases the descriptions given to the decomposer are made of.
DecomposeLexicon ==
  {
    <<"F","l","o","o","d">>,   \* "Flood"
    <<"f","a","d","e","d"," ","p","a","r","c","h","m","e","n","t">>,   \* "faded parchment"
    <<"s","a","t","u","r","a","t","e","d"," ","v","i","v","i","d">>,   \* "saturated vivid"
    <<"p","a","p","e","r">>,   \* "paper"
    <<"e","d","i","t","o","r","i","a","l">>,   \* "editorial"
    <<"w","a","t","e","r","c","o","l","o","r"," ","b","l","o","o","m">>,   \* "watercolor bloom"
    <<"b","o","l","d">>   \* "bold"
  }

\* ------------------------------------------------------- utility functions

\* A dict that has all five coordinates (a[k] raises KeyError otherwise).
HasAllKeys(p) == ParamSet \subseteq DOMAIN p

\* sum((a[k] - b[k]) ** 2 for k in PARAMETER_NAMES), from coordinate i on.
RECURSIVE SumSquares(_, _, _)
SumSquares(a, b, i) ==
  IF i > Len(PARAMETER_NAMES) THEN Wide(0, 0)
  ELSE LET k == PARAMETER_NAMES[i]
       IN  WideAdd(WideSquare(a[k] - b[k]), SumSquares(a, b, i + 1))

\* _euclidean_distance
euclidean_distance(a, b) == WideSqrt(SumSquares(a, b, 1))

\* Variant of _lerp_state that adds t * b[k] instead of t * (b[k] - a[k]).
lerp_state_NoDifference(a, b, t) ==
  [ k \in ParamSet |-> a[k] + MulFix(t, b[k]) ]

\* _lerp_state
lerp_state(a, b, t) ==
  [ k \in ParamSet |-> a[k] + MulFix(t, b[k] - a[k]) ]

\* Variant of the scan with d <= best_dist: the last of the nearest types.
RECURSIVE NearestScan_LastNearest(_, _, _, _, _)
NearestScan_LastNearest(h, state, i, best_id, best_sq) ==
  IF i > Len(TYPE_IDS) THEN [ id |-> best_id, sq |-> best_sq ]
  ELSE LET tid == TYPE_IDS[i]
           d == SumSquares(state, h[VISUAL_TYPES[tid].center], 1)
       IN  IF best_id = "" \/ ~WideLess(best_sq, d)
           THEN NearestScan_LastNearest(h, state, i + 1, tid, d)
           ELSE NearestScan_LastNearest(h, state, i + 1, best_id, best_sq)

nearest_visual_type_LastNearest(h, state) ==
  LET best == NearestScan_LastNearest(h, state, 1, "", Wide(0, 0))
  IN  [ id |-> best.id, dist |-> WideSqrt(best.sq) ]

\* _nearest_visual_type: the loop over VISUAL_TYPES.items(), from entry i on,
\* with the best (id, distance) so far; best_id = "" stands for the initial
\* best_dist = inf.  The comparison d < best_dist is made on the sums of
\* squares (math.sqrt is monotone).
RECURSIVE NearestScan(_, _, _, _, _)
NearestScan(h, state, i, best_id, best_sq) ==
  IF i > Len(TYPE_IDS) THEN [ id |-> best_id, sq |-> best_sq ]
  ELSE LET tid == TYPE_IDS[i]
           d == SumSquares(state, h[VISUAL_TYPES[tid].center], 1)
       IN  IF best_id = "" \/ WideLess(d, best_sq)
           THEN NearestScan(h, state, i + 1, tid, d)
           ELSE NearestScan(h, state, i + 1, best_id, best_sq)

nearest_visual_type(h, state) ==
  LET best == NearestScan(h, state, 1, "", Wide(0, 0))
  IN  [ id |-> best.id, dist |-> WideSqrt(best.sq) ]

\* {k: round(v, 4) for k, v in state.items()}
RoundState(state) == Dict([ k \in DOMAIN state |-> Round4(state[k]) ])

\* 2 * math.pi
TWO_PI == 6283185

\* math.sin(theta) for 0 <= theta <= pi / 4, by its Taylor series.
SinSeries(theta) ==
  LET t2 == MulFix(theta, theta)
      a  == ONE - RoundDiv(t2, 72)
      b  == ONE - RoundDiv(MulFix(t2, a), 42)
      c  == ONE - RoundDiv(MulFix(t2, b), 20)
      d  == ONE - RoundDiv(MulFix(t2, c), 6)
  IN  MulFix(theta, d)

\* math.cos(theta) for 0 <= theta <= pi / 4, by its Taylor series.
CosSeries(theta) ==
  LET t2 == MulFix(theta, theta)
      a  == ONE - RoundDiv(t2, 56)
      b  == ONE - RoundDiv(MulFix(t2, a), 30)
      c  == ONE - RoundDiv(MulFix(t2, b), 12)
  IN  ONE - RoundDiv(MulFix(t2, c), 2)

\* sin of r turns, 0 <= r <= 1/4 turn.
SinQuarter(r) ==
  IF 8 * r <= ONE THEN SinSeries(MulFix(r, TWO_PI))
  ELSE CosSeries(MulFix(ONE \div 4 - r, TWO_PI))

\* math.sin(x * 2 * math.pi), x >= 0 given in turns.
SinTurns(x) ==
  LET y == x % ONE
      q == y \div (ONE \div 4)
      r == y % (ONE \div 4)
  IN  CASE q = 0 -> SinQuarter(r)
        [] q = 1 -> SinQuarter(ONE \div 4 - r)
        [] q = 2 -> -SinQuarter(r)
        [] OTHER -> -SinQuarter(ONE \div 4 - r)

\* ----------------------------------------------------------------- softmax

\* math.exp(-n / 2) for n = 0 .. 39, to 6 decimals (entry n + 1).
EXP_NEG_HALVES ==
  <<
     1000000, 606531, 367879, 223130, 135335, 82085, 49787, 30197,
     18316, 11109, 6738, 4087, 2479, 1503, 912, 553,
     335, 203, 123, 75, 45, 28, 17, 10,
     6, 4, 2, 1, 1, 1, 0, 0,
     0, 0, 0, 0, 0, 0, 0, 0
  >>

\* math.exp(-r) for 0 <= r < 0.5, by its Taylor series.
ExpNegSeries(r) ==
  LET a == ONE - RoundDiv(r, 7)
      b == ONE - RoundDiv(MulFix(r, a), 6)
      c == ONE - RoundDiv(MulFix(r, b), 5)
      d == ONE - RoundDiv(MulFix(r, c), 4)
      e == ONE - RoundDiv(MulFix(r, d), 3)
      f == ONE - RoundDiv(MulFix(r, e), 2)
  IN  ONE - MulFix(r, f)

\* math.exp(-n / 2) for a natural n: 0 to 6 decimals from n = 30 on.
ExpNegHalves(n) ==
  IF n < Len(EXP_NEG_HALVES) THEN EXP_NEG_HALVES[n + 1] ELSE 0

\* math.exp(-x) for x >= 0.
ExpNeg(x) ==
  LET n == x \div (ONE \div 2)
      r == x % (ONE \div 2)
  IN  MulFix(ExpNegHalves(n), ExpNegSeries(r))

\* math.exp(-x / temperature) for x >= 0 and a temperature of at least
\* 0.01: 0 to 6 decimals once x / temperature reaches 20.
ExpQuotient(x, temperature) ==
  IF x >= 20 * temperature THEN 0
  ELSE ExpNeg(RoundDiv(x * 100, temperature \div 10000))

\* x / y for 0 <= x <= y, y > 0, without leaving 32 bits.
DivFix(x, y) ==
  LET q1 == (x * 100) \div y
      r1 == (x * 100) % y
      q2 == (r1 * 100) \div y
      r2 == (r1 * 100) % y
  IN  q1 * 10000 + q2 * 100 + RoundDiv(r2 * 100, y)

\* max(scores.values()) over the visual types from entry i on.
RECURSIVE MaxOver(_, _)
MaxOver(scores, i) ==
  IF i = Len(TYPE_IDS) THEN scores[TYPE_IDS[i]]
  ELSE Max2(scores[TYPE_IDS[i]], MaxOver(scores, i + 1))

\* sum(d.values()) over the visual types from entry i on.
RECURSIVE SumOver(_, _)
SumOver(d, i) ==
  IF i > Len(TYPE_IDS) THEN 0 ELSE d[TYPE_IDS[i]] + SumOver(d, i + 1)

\* Variant of _softmax that does not divide by the total: the weights are the
\* exponentials themselves.
softmax_Unnormalised(scores, temperature) ==
  LET max_s == MaxOver(scores, 1)
  IN  Dict([ k \in DOMAIN scores |-> ExpQuotient(max_s - scores[k], temperature) ])

\* _softmax over a dict keyed by the visual types (it is never empty, and
\* total >= exp(0) > 0).
softmax(scores, temperature) ==
  LET max_s == MaxOver(scores, 1)
      exp_s == Dict([ k \in DOMAIN scores |-> ExpQuotient(max_s - scores[k], temperature) ])
      total == SumOver(exp_s, 1)
  IN  Dict([ k \in DOMAIN scores |-> DivFix(exp_s[k], total) ])

\* ------------------------------------------------------------------- text

\* str.lower(), for the ASCII letters.
UPPER ==
  << "A", "B", "C", "D", "E", "F", "G", "H", "I", "J", "K", "L", "M",
     "N", "O", "P", "Q", "R", "S", "T", "U", "V", "W", "X", "Y", "Z" >>

LOWER ==
  << "a", "b", "c", "d", "e", "f", "g", "h", "i", "j", "k", "l", "m",
     "n", "o", "p", "q", "r", "s", "t", "u", "v", "w", "x", "y", "z" >>

LowerChar(c) ==
  IF \E i \in 1..Len(UPPER) : UPPER[i] = c
  THEN LOWER[CHOOSE i \in 1..Len(UPPER) : UPPER[i] = c]
  ELSE c

Lower(text) ==
  LET lowered == [ i \in 1..Len(text) |-> LowerChar(text[i]) ]
  IN  SubSeq(lowered, 1, Len(text))

\* term in text
Contains(term, text) ==
  \E i \in 1..(Len(text) - Len(term) + 1) :
    \A j \in 1..Len(term) : text[i + j - 1] = term[j]

\* any(t in text for t in terms)
AnyIn(terms, text) == \E j \in 1..Len(terms) : Contains(terms[j], text)

\* The terms of the list that occur in the text, in list order.
Matches(terms, text) == SelectSeq(terms, LAMBDA term : Contains(term, text))


\* -------------------------------------------- classify_dissolution_intent

\* The terms of a visual type in dissolution_terms.
TermsOf(tid) ==
  LET i == CHOOSE j \in 1..Len(dissolution_terms) : dissolution_terms[j].id = tid
  IN  dissolution_terms[i].terms

\* type_scores: the number of a type's terms that occur in the text.
TypeScores(text) ==
  [ tid \in TypeIdSet |-> Len(Matches(TermsOf(tid), text)) ]

\* matched_keywords: the matching terms of the types that have any.
MatchedKeywords(text) ==
  [ tid \in { x \in TypeIdSet : Matches(TermsOf(x), text) # << >> } |->
      Matches(TermsOf(tid), text) ]

\* max(type_scores.values())
RECURSIVE MaxScore(_, _)
MaxScore(scores, i) ==
  IF i > Len(dissolution_terms) THEN 0
  ELSE Max2(scores[dissolution_terms[i].id], MaxScore(scores, i + 1))

\* max(type_scores, key=type_scores.get): the scan of the dict from entry i
\* on, keeping the first key of the largest value seen.
RECURSIVE ArgMaxScan(_, _, _)
ArgMaxScan(scores, i, best) ==
  IF i > Len(dissolution_terms) THEN best
  ELSE IF scores[dissolution_terms[i].id] > scores[best]
       THEN ArgMaxScan(scores, i + 1, dissolution_terms[i].id)
  ELSE ArgMaxScan(scores, i + 1, best)

\* Variant of PrimaryStyle that keeps the last key of the largest value.
RECURSIVE ArgMaxScan_LastLargest(_, _, _)
ArgMaxScan_LastLargest(scores, i, best) ==
  IF i > Len(dissolution_terms) THEN best
  ELSE IF scores[dissolution_terms[i].id] >= scores[best]
       THEN ArgMaxScan_LastLargest(scores, i + 1, dissolution_terms[i].id)
  ELSE ArgMaxScan_LastLargest(scores, i + 1, best)

PrimaryStyle_LastLargest(text) ==
  LET scores == TypeScores(text)
  IN  IF MaxScore(scores, 1) = 0 THEN "contested_boundary"
      ELSE ArgMaxScan_LastLargest(scores, 2, dissolution_terms[1].id)

\* primary
PrimaryStyle(text) ==
  LET scores == TypeScores(text)
  IN  IF MaxScore(scores, 1) = 0 THEN "contested_boundary"
      ELSE ArgMaxScan(scores, 2, dissolution_terms[1].id)

\* confidence
Confidence(text) ==
  LET m == MaxScore(TypeScores(text), 1)
  IN  IF m = 0 THEN 300000 ELSE Min2(ONE, (m * ONE) \div 4)

\* The hydrology loop from category i on; match is hydrology_match so far.
\* The break leaves the loop over one category's terms only, so a later
\* category with a matching term assigns hydrology_match again.
RECURSIVE HydrologyScan(_, _, _)
HydrologyScan(text, i, match) ==
  IF i > Len(hydrology_terms) THEN match
  ELSE LET hid == hydrology_terms[i].id
       IN  IF AnyIn(hydrology_terms[i].terms, text)
           THEN HydrologyScan(text, i + 1, IF hid # "dry" THEN hid ELSE "dry_brush")
           ELSE HydrologyScan(text, i + 1, match)

HydrologyMatch(text) == HydrologyScan(text, 1, "controlled_wash")

\* The substrate if / elif chain from branch i on.
RECURSIVE SubstrateScan(_, _)
SubstrateScan(text, i) ==
  IF i > Len(substrate_terms) THEN "cold_press"
  ELSE IF AnyIn(substrate_terms[i].terms, text) THEN substrate_terms[i].id
  ELSE SubstrateScan(text, i + 1)

SubstrateMatch(text) == SubstrateScan(text, 1)

\* The record classify_dissolution_intent returns.
ClassifyResult(h, user_intent) ==
  LET text == Lower(user_intent)
      primary == PrimaryStyle(text)
  IN  [ kind |-> "ok",
        primary_style |-> primary,
        confidence |-> Confidence(text),
        type_scores |-> TypeScores(text),
        matched_keywords |-> MatchedKeywords(text),
        suggested_hydrology |-> HydrologyMatch(text),
        suggested_substrate |-> SubstrateMatch(text),
        center |-> h[VISUAL_TYPES[primary].center] ]

\* ---------------------------------------------- map_dissolution_parameters

\* Variant of IntensityScale whose default is the subtle factor:
\* {...}.get(intensity, 0.6).
IntensityScale_DefaultSubtle(intensity) ==
  CASE intensity = "subtle"   -> 600000
    [] intensity = "moderate" -> 1000000
    [] intensity = "dramatic" -> 1400000
    [] OTHER                  -> 600000

\* {"subtle": 0.6, "moderate": 1.0, "dramatic": 1.4}.get(intensity, 1.0)
IntensityScale(intensity) ==
  CASE intensity = "subtle"   -> 600000
    [] intensity = "moderate" -> 1000000
    [] intensity = "dramatic" -> 1400000
    [] OTHER                  -> 1000000

\* emphasis_shifts.get(emphasis, {}).get(k, 0.0)
EmphasisShift(emphasis, k) ==
  CASE emphasis = "dissolution" /\ k = "dissolution_rate"     -> 100000
    [] emphasis = "dissolution" /\ k = "anchor_density"       -> -100000
    [] emphasis = "edge"        /\ k = "edge_coherence"       -> 150000
    [] emphasis = "substrate"   /\ k = "substrate_visibility" -> 150000
    [] emphasis = "hydrology"   /\ k = "pigment_hydrology"    -> 150000
    [] OTHER                                                  -> 0

\* Variant of Clamp01 without the upper bound: max(0.0, v).
Clamp01_NoUpperBound(v) == Max2(0, v)

\* max(0.0, min(1.0, v))
Clamp01(v) == Max2(0, Min2(ONE, v))

\* The state after the intensity and emphasis loop.
MapState(center, intensity, emphasis) ==
  [ k \in ParamSet |->
      LET deviation == MulFix(center[k] - ONE \div 2, IntensityScale(intensity))
      IN  Clamp01(ONE \div 2 + deviation + EmphasisShift(emphasis, k)) ]

\* Variant of the edge bands without overlap: the middle band is
\* 0.4 <= e <= 0.6.
EdgeModes_DisjointBands(state) ==
  LET e == state["edge_coherence"]
  IN  (IF e > 600000 THEN << "architectural_hard", "silhouette_cut" >> ELSE << >>)
      \o (IF 400000 <= e /\ e <= 600000
          THEN << "cauliflower_backrun", "granulation_boundary" >> ELSE << >>)
      \o (IF e < 400000 THEN << "feathered_bleed", "wet_lift" >> ELSE << >>)

\* edge_modes
EdgeModes(state) ==
  LET e == state["edge_coherence"]
  IN  (IF e > 600000 THEN << "architectural_hard", "silhouette_cut" >> ELSE << >>)
      \o (IF 300000 <= e /\ e <= 700000
          THEN << "cauliflower_backrun", "granulation_boundary" >> ELSE << >>)
      \o (IF e < 400000 THEN << "feathered_bleed", "wet_lift" >> ELSE << >>)

\* Variant of the hydrology bands with the upper limits inclusive (p <= limit).
HydrologyState_InclusiveLimits(state) ==
  LET p == state["pigment_hydrology"]
  IN  IF p <= 150000 THEN "dry_brush"
      ELSE IF p <= 350000 THEN "controlled_wash"
      ELSE IF p <= 550000 THEN "wet_on_dry"
      ELSE IF p <= 800000 THEN "wet_on_wet"
      ELSE "flooding"

\* hydrology
HydrologyState(state) ==
  LET p == state["pigment_hydrology"]
  IN  IF p < 150000 THEN "dry_brush"
      ELSE IF p < 350000 THEN "controlled_wash"
      ELSE IF p < 550000 THEN "wet_on_dry"
      ELSE IF p < 800000 THEN "wet_on_wet"
      ELSE "flooding"

\* Variant of the contrast ladder with the dissolution_rate > 0.6 branch
\* tested before the flood branch.
ContrastCurve_HighKeyBeforeFlood(state) ==
  IF state["anchor_density"] > 700000 THEN "anchor_contrast"
  ELSE IF state["dissolution_rate"] > 600000 THEN "high_key_dissolution"
  ELSE IF state["dissolution_rate"] > 800000 /\ state["pigment_hydrology"] > 800000
       THEN "flood_flat"
  ELSE IF state["substrate_visibility"] > 600000 THEN "lifted_wash"
  ELSE "photographic_preserved"

\* Variant of ContrastCurve with a branch for granulation_curve: a visible
\* substrate under little water.
ContrastCurve_WithGranulation(state) ==
  IF state["anchor_density"] > 700000 THEN "anchor_contrast"
  ELSE IF state["dissolution_rate"] > 800000 /\ state["pigment_hydrology"] > 800000
       THEN "flood_flat"
  ELSE IF state["dissolution_rate"] > 600000 THEN "high_key_dissolution"
  ELSE IF state["substrate_visibility"] > 600000 /\ state["pigment_hydrology"] < 300000
       THEN "granulation_curve"
  ELSE IF state["substrate_visibility"] > 600000 THEN "lifted_wash"
  ELSE "photographic_preserved"

\* contrast
ContrastCurve(state) ==
  IF state["anchor_density"] > 700000 THEN "anchor_contrast"
  ELSE IF state["dissolution_rate"] > 800000 /\ state["pigment_hydrology"] > 800000
       THEN "flood_flat"
  ELSE IF state["dissolution_rate"] > 600000 THEN "high_key_dissolution"
  ELSE IF state["substrate_visibility"] > 600000 THEN "lifted_wash"
  ELSE "photographic_preserved"

\* characteristics
Characteristics(state) ==
  (IF state["dissolution_rate"] < 300000 THEN << "photographic fidelity dominant" >>
   ELSE IF state["dissolution_rate"] < 600000 THEN << "contested territory" >>
   ELSE << "painterly dissolution" >>)
  \o (IF state["edge_coherence"] > 600000 THEN << "sharp architectural edges" >>
      ELSE IF state["edge_coherence"] < 300000 THEN << "all edges softened" >>
      ELSE << >>)
  \o (IF state["substrate_visibility"] > 600000 THEN << "paper surface breathing" >>
      ELSE << >>)
  \o (IF state["pigment_hydrology"] > 700000 THEN << "wet-on-wet pigment behavior" >>
      ELSE IF state["pigment_hydrology"] < 200000 THEN << "dry technique" >>
      ELSE << >>)
  \o (IF state["anchor_density"] > 600000 THEN << "dense photographic anchors" >>
      ELSE IF state["anchor_density"] < 200000 THEN << "near-abstract" >>
      ELSE << >>)

\* An absent optional argument.
None == "None"

\* The record map_dissolution_parameters returns.
MapResult(h, style_id, intensity, emphasis, substrate) ==
  IF style_id \notin DOMAIN VISUAL_TYPES
  THEN [ kind |-> "error", error |-> << "Unknown style", style_id >>,
         valid |-> TYPE_IDS ]
  ELSE LET state == MapState(h[VISUAL_TYPES[style_id].center], intensity, emphasis)
           nearest == nearest_visual_type(h, state)
       IN  [ kind |-> "ok",
             style_id |-> style_id,
             style_name |-> TYPE_NAMES[style_id],
             keywords |-> TYPE_KEYWORDS[style_id],
             intensity |-> intensity,
             emphasis |-> emphasis,
             state |-> RoundState(state),
             nearest_visual_type |-> nearest.id,
             visual_distance |-> Round4(nearest.dist),
             active_edge_modes |-> EdgeModes(state),
             hydrology_state |-> HydrologyState(state),
             hydrology_details |-> HydrologyState(state) \in HYDROLOGY_STATES,
             contrast_curve |-> ContrastCurve(state),
             contrast_curve_details |-> ContrastCurve(state) \in CONTRAST_CURVES,
             substrate |-> IF substrate # None /\ substrate \in SUBSTRATE_TYPES
                           THEN substrate ELSE None,
             characteristics |-> Characteristics(state) ]

\* The dict the loop of map_dissolution_parameters assigns into.
Local == "local"

\* Variant that works on the center dict itself instead of a copy of it.
MapWorkingDict_TheCenter(center) == center

\* state = dict(t["center"]): a new dict, owned by the call.
MapWorkingDict(center) == Local

\* The coordinate dicts of the tables after map_dissolution_parameters: the
\* assignments state[k] = ... land in the working dict.
HeapAfterMap(h, style_id, intensity, emphasis) ==
  IF style_id \notin DOMAIN VISUAL_TYPES THEN h
  ELSE LET center == VISUAL_TYPES[style_id].center
           target == MapWorkingDict(center)
       IN  IF target = Local THEN h
           ELSE [ h EXCEPT ![target] = MapState(h[center], intensity, emphasis) ]

\* ------------------------------------------- get_dissolution_style_details

StyleDetailsResult(h, style_id) ==
  IF style_id \notin DOMAIN VISUAL_TYPES
  THEN [ kind |-> "error", error |-> << "Unknown style", style_id >>,
         valid |-> TYPE_IDS ]
  ELSE [ kind |-> "ok", style_id |-> style_id,
         center |-> h[VISUAL_TYPES[style_id].center] ]


\* ------------------------------------------------------- optional arguments

\* Optional[dict]: no dict (None), or the dict given.
NoDict == << >>

Some(d) == << d >>

\* bool(custom_state): a dict is given and it is not empty.
Truthy(opt) == opt # NoDict /\ DOMAIN opt[1] # {}

\* ------------------------------------------------------------ _resolve(sid)

\* The local _resolve of compute_dissolution_distance,
\* compute_dissolution_trajectory and generate_dissolution_rhythmic_sequence:
\* the coordinate dict of the id, or NoDict for None.
resolve(h, sid) ==
  IF sid \in DOMAIN CANONICAL_STATES THEN Some(h[CANONICAL_STATES[sid].coordinates])
  ELSE IF sid \in DOMAIN VISUAL_TYPES THEN Some(h[VISUAL_TYPES[sid].center])
  ELSE IF sid \in DOMAIN ATTRACTOR_PRESETS THEN Some(h[ATTRACTOR_PRESETS[sid].state])
  ELSE NoDict

\* ------------------------------------------- compute_dissolution_distance

\* max(diff, key=lambda k: abs(diff[k])): the scan of the keys from i on,
\* keeping the first key of the largest absolute value seen.
RECURSIVE DominantScan(_, _, _)
DominantScan(diff, i, best) ==
  IF i > Len(PARAMETER_NAMES) THEN best
  ELSE IF Abs(diff[PARAMETER_NAMES[i]]) > Abs(diff[best])
       THEN DominantScan(diff, i + 1, PARAMETER_NAMES[i])
  ELSE DominantScan(diff, i + 1, best)

\* Variant of DominantAxis that keeps the last key of the largest absolute
\* value.
RECURSIVE DominantScan_LastLargest(_, _, _)
DominantScan_LastLargest(diff, i, best) ==
  IF i > Len(PARAMETER_NAMES) THEN best
  ELSE IF Abs(diff[PARAMETER_NAMES[i]]) >= Abs(diff[best])
       THEN DominantScan_LastLargest(diff, i + 1, PARAMETER_NAMES[i])
  ELSE DominantScan_LastLargest(diff, i + 1, best)

DominantAxis_LastLargest(diff) ==
  DominantScan_LastLargest(diff, 2, PARAMETER_NAMES[1])

\* dominant
DominantAxis(diff) == DominantScan(diff, 2, PARAMETER_NAMES[1])

DistanceResult(h, id_1, id_2) ==
  LET s1 == resolve(h, id_1)
      s2 == resolve(h, id_2)
  IN  IF s1 = NoDict THEN [ kind |-> "error", error |-> << "Unknown id", id_1 >> ]
      ELSE IF s2 = NoDict THEN [ kind |-> "error", error |-> << "Unknown id", id_2 >> ]
      ELSE LET diff == [ k \in ParamSet |-> Round4(s2[1][k] - s1[1][k]) ]
           IN  [ kind |-> "ok",
                 distance |-> Round4(euclidean_distance(s1[1], s2[1])),
                 per_axis_difference |-> diff,
                 dominant_axis |-> DominantAxis(diff) ]

\* ----------------------------------------- compute_dissolution_trajectory

\* One entry of the trajectory: step i of num_steps.
TrajectoryEntry(h, start, end, i, num_steps) ==
  LET t == RoundDiv(i * ONE, num_steps)
      state == lerp_state(start, end, t)
      nearest == nearest_visual_type(h, state)
  IN  [ step |-> i, t |-> Round4(t), state |-> RoundState(state),
        nearest_type |-> nearest.id, type_distance |-> Round4(nearest.dist) ]

TrajectoryResult(h, start_id, end_id, num_steps) ==
  LET start == resolve(h, start_id)
      end == resolve(h, end_id)
  IN  IF start = NoDict THEN [ kind |-> "error", error |-> << "Unknown id", start_id >> ]
      ELSE IF end = NoDict THEN [ kind |-> "error", error |-> << "Unknown id", end_id >> ]
      \* range(num_steps + 1) is range(1) and t = 0 / 0 raises
      ELSE IF num_steps = 0 THEN [ kind |-> "fault", exception |-> "ZeroDivisionError" ]
      ELSE [ kind |-> "ok",
             num_steps |-> num_steps,
             total_distance |-> Round4(euclidean_distance(start[1], end[1])),
             trajectory |->
               [ j \in 1..(num_steps + 1) |->
                   TrajectoryEntry(h, start[1], end[1], j - 1, num_steps) ] ]

\* ---------------------------------- generate_dissolution_attractor_prompt

\* The state the prompt is generated for.
AttractorState(h, attractor_id, custom_state) ==
  IF Truthy(custom_state) THEN custom_state[1]
  ELSE IF attractor_id \in DOMAIN ATTRACTOR_PRESETS
       THEN h[ATTRACTOR_PRESETS[attractor_id].state]
  ELSE IF attractor_id \in DOMAIN VISUAL_TYPES
       THEN h[VISUAL_TYPES[attractor_id].center]
  ELSE IF attractor_id \in DOMAIN CANONICAL_STATES
       THEN h[CANONICAL_STATES[attractor_id].coordinates]
  ELSE h[VISUAL_TYPES["contested_boundary"].center]

\* base_prompt: the phrases chosen for the state, the type whose name,
\* description, colours and optics are quoted, and the style modifier.
BasePrompt(state, nearest_id, style_modifier) ==
  [ mode_of |-> nearest_id,
    hydro_desc |->
      IF state["pigment_hydrology"] < 150000 THEN "dry brush technique"
      ELSE IF state["pigment_hydrology"] < 350000 THEN "controlled wash"
      ELSE IF state["pigment_hydrology"] < 550000 THEN "wet-on-dry layered washes"
      ELSE IF state["pigment_hydrology"] < 800000 THEN "wet-on-wet diffusion"
      ELSE "flooding technique",
    edge_desc |->
      IF state["edge_coherence"] > 700000 THEN "architectural hard edges"
      ELSE IF state["edge_coherence"] > 400000 THEN "mixed edge types"
      ELSE "feathered bleed edges",
    sub_desc |->
      IF state["substrate_visibility"] > 700000 THEN "paper surface as dominant"
      ELSE IF state["substrate_visibility"] > 350000 THEN "paper partially visible"
      ELSE "substrate hidden",
    anchor_desc |->
      IF state["anchor_density"] > 700000 THEN "dense photographic anchors"
      ELSE IF state["anchor_density"] > 300000 THEN "scattered fidelity anchors"
      ELSE "minimal anchoring",
    style_modifier |-> style_modifier ]

\* Keyframe i (from 0) of the "sequence" mode.
AttractorKeyframe(h, state, i, keyframe_count) ==
  LET t == RoundDiv(i * ONE, Max2(1, keyframe_count - 1))
      kf_state == lerp_state(h[VISUAL_TYPES["editorial_wash"].center], state, t)
  IN  [ keyframe |-> i + 1, t |-> Round3(t), state |-> RoundState(kf_state),
        nearest_type |-> nearest_visual_type(h, kf_state).id ]

AttractorPromptResult(h, attractor_id, custom_state, mode, style_modifier, keyframe_count) ==
  LET state == AttractorState(h, attractor_id, custom_state)
  IN  \* _nearest_visual_type(state) reads all five coordinates
      IF ~HasAllKeys(state) THEN [ kind |-> "fault", exception |-> "KeyError" ]
      ELSE LET nearest_id == nearest_visual_type(h, state).id
               base_prompt == BasePrompt(state, nearest_id, style_modifier)
           IN  CASE mode = "composite" ->
                      [ kind |-> "ok", mode |-> "composite", prompt |-> base_prompt,
                        state |-> RoundState(state), nearest_type |-> nearest_id ]
                 [] mode = "split_view" ->
                      [ kind |-> "ok", mode |-> "split_view", base_prompt |-> base_prompt,
                        state |-> RoundState(state) ]
                 [] mode = "sequence" ->
                      [ kind |-> "ok", mode |-> "sequence",
                        keyframe_count |-> keyframe_count,
                        keyframes |->
                          [ j \in 1..keyframe_count |->
                              AttractorKeyframe(h, state, j - 1, keyframe_count) ] ]
                 [] OTHER ->
                      [ kind |-> "error", error |-> << "Unknown mode", mode >> ]

\* --------------------------------- generate_dissolution_rhythmic_sequence

\* 0.5 * (1.0 + math.sin(phase)), the phase given in turns.
\* Variant of the sinusoidal t with the phase a quarter turn ahead:
\* 0.5 * (1.0 + math.cos(phase)).
SinusoidalT_QuarterAhead(turns) == RoundDiv(ONE + SinTurns(turns + ONE \div 4), 2)

\* 0.5 * (1.0 + math.sin(phase)), the phase given in turns
SinusoidalT(turns) == RoundDiv(ONE + SinTurns(turns), 2)

\* Variant of t whose triangle keeps rising in the second half of the cycle.
OscillationT_UnfoldedTriangle(oscillation_pattern, step, steps_per_cycle, phase_offset) ==
  LET turns == RoundDiv(step * ONE, steps_per_cycle) + phase_offset
      cycle_pos == RoundDiv((step % steps_per_cycle) * ONE, steps_per_cycle)
  IN  CASE oscillation_pattern = "sinusoidal" -> SinusoidalT(turns)
        [] oscillation_pattern = "triangle" -> 2 * cycle_pos
        [] oscillation_pattern = "sawtooth" -> cycle_pos
        [] OTHER -> SinusoidalT(turns)

\* t at a step of the sequence.
OscillationT(oscillation_pattern, step, steps_per_cycle, phase_offset) ==
  LET turns == RoundDiv(step * ONE, steps_per_cycle) + phase_offset
      cycle_pos == RoundDiv((step % steps_per_cycle) * ONE, steps_per_cycle)
  IN  CASE oscillation_pattern = "sinusoidal" -> SinusoidalT(turns)
        [] oscillation_pattern = "triangle" ->
             IF 2 * cycle_pos < ONE THEN 2 * cycle_pos ELSE 2 * (ONE - cycle_pos)
        [] oscillation_pattern = "sawtooth" -> cycle_pos
        [] OTHER -> SinusoidalT(turns)

\* The entry appended for a step.
RhythmEntry(h, a, b, step, t) ==
  LET state == lerp_state(a, b, t)
  IN  [ step |-> step, t |-> Round4(t), state |-> RoundState(state),
        nearest_type |-> nearest_visual_type(h, state).id ]

\* Variant of the decimation with the stride max(1, steps_per_cycle // 2).
Sampled_HalfPeriodStride(step, steps_per_cycle) ==
  step % Max2(1, steps_per_cycle \div 2) = 0

\* Variant of the decimation that retains every step.
Sampled_EveryStep(step, steps_per_cycle) == step >= 0

\* step % max(1, steps_per_cycle // 4) == 0
Sampled(step, steps_per_cycle) == step % Max2(1, steps_per_cycle \div 4) = 0

RhythmicSequenceResult(h, state_a_id, state_b_id, steps_per_cycle, num_cycles, oscillation_pattern, phase_offset) ==
  LET a == resolve(h, state_a_id)
      b == resolve(h, state_b_id)
      total_steps == steps_per_cycle * num_cycles
  IN  IF a = NoDict THEN [ kind |-> "error", error |-> << "Unknown id", state_a_id >> ]
      ELSE IF b = NoDict THEN [ kind |-> "error", error |-> << "Unknown id", state_b_id >> ]
      ELSE LET all == [ j \in 1..total_steps |->
                          RhythmEntry(h, a[1], b[1], j - 1,
                            OscillationT(oscillation_pattern, j - 1,
                                         steps_per_cycle, phase_offset)) ]
               sequence == SelectSeq(all, LAMBDA e : Sampled(e.step, steps_per_cycle))
           IN  [ kind |-> "ok",
                 oscillation_pattern |-> oscillation_pattern,
                 steps_per_cycle |-> steps_per_cycle,
                 num_cycles |-> num_cycles,
                 total_steps |-> total_steps,
                 sampled_keyframes |-> Len(sequence),
                 sequence |-> sequence ]

\* -------------------------------------- apply_dissolution_rhythmic_preset

\* VISUAL_TYPES[id]["center"] if id in VISUAL_TYPES else
\* CANONICAL_STATES[id]["coordinates"]
PresetEndpoint(h, id) ==
  IF id \in DOMAIN VISUAL_TYPES THEN h[VISUAL_TYPES[id].center]
  ELSE h[CANONICAL_STATES[id].coordinates]

RhythmicPresetResult(h, preset_name) ==
  IF preset_name \notin DOMAIN RHYTHMIC_PRESETS
  THEN [ kind |-> "error", error |-> << "Unknown preset", preset_name >>,
         valid |-> PRESET_IDS ]
  ELSE LET preset == RHYTHMIC_PRESETS[preset_name]
           a == PresetEndpoint(h, preset.state_a)
           b == PresetEndpoint(h, preset.state_b)
           period == preset.period
       IN  [ kind |-> "ok", preset_name |-> preset_name, period |-> period,
             state_a |-> a, state_b |-> b,
             sequence |->
               [ j \in 1..period |->
                   RhythmEntry(h, a, b, j - 1,
                     SinusoidalT(RoundDiv((j - 1) * ONE, period))) ] ]

\* ---------------------------------- generate_dissolution_sequence_prompts

SequencePromptsResult(h, preset_name, keyframe_count, style_modifier) ==
  IF preset_name \notin DOMAIN RHYTHMIC_PRESETS
  THEN [ kind |-> "error", error |-> << "Unknown preset", preset_name >>,
         valid |-> PRESET_IDS ]
  ELSE LET preset == RHYTHMIC_PRESETS[preset_name]
           a == PresetEndpoint(h, preset.state_a)
           b == PresetEndpoint(h, preset.state_b)
       IN  [ kind |-> "ok", preset_name |-> preset_name,
             keyframe_count |-> keyframe_count,
             keyframes |->
               [ j \in 1..keyframe_count |->
                   LET t == SinusoidalT(RoundDiv((j - 1) * ONE, keyframe_count))
                       state == lerp_state(a, b, t)
                       nearest_id == nearest_visual_type(h, state).id
                   IN  [ keyframe |-> j,
                         phase_degrees |-> RoundDiv((j - 1) * 360, keyframe_count),
                         t |-> Round4(t), state |-> RoundState(state),
                         nearest_type |-> nearest_id,
                         prompt |-> [ name_of |-> nearest_id,
                                      style_modifier |-> style_modifier ] ] ] ]

\* ---------------------------------- extract_dissolution_visual_vocabulary

\* The state the vocabulary is extracted for, or NoDict when the operation
\* returns its error.
VocabularyState(h, state, dissolution_id) ==
  IF dissolution_id # None /\ dissolution_id # ""
     /\ dissolution_id \in DOMAIN CANONICAL_STATES
  THEN Some(h[CANONICAL_STATES[dissolution_id].coordinates])
  ELSE IF dissolution_id # None /\ dissolution_id # ""
          /\ dissolution_id \in DOMAIN VISUAL_TYPES
  THEN Some(h[VISUAL_TYPES[dissolution_id].center])
  ELSE state

\* 1.0 / (d + 0.01) for a distance d >= 0, without leaving 32 bits.
InverseDistance(d) ==
  LET y == d + ONE \div 100
      q1 == (1000 * ONE) \div y
      r1 == (1000 * ONE) % y
      q2 == (r1 * 100) \div y
      r2 == (r1 * 100) % y
  IN  q1 * 1000 + q2 * 10 + RoundDiv(r2 * 10, y)

\* weights: the softmax at temperature 0.5 of the inverse distances to the
\* centers.
VocabularyWeights(h, state) ==
  softmax(Dict([ tid \in TypeIdSet |->
                   InverseDistance(euclidean_distance(state, h[VISUAL_TYPES[tid].center])) ]),
          ONE \div 2)

TypeIndex(tid) == CHOOSE i \in 1..Len(TYPE_IDS) : TYPE_IDS[i] = tid

\* sorted(weights.items(), key=lambda x: -x[1]): by falling weight, equal
\* weights in dict order (the sort is stable).
SortedByWeight(weights) ==
  LET Before(a, b) == \/ weights[a] > weights[b]
                      \/ weights[a] = weights[b] /\ TypeIndex(a) < TypeIndex(b)
      Rank(a) == Cardinality({ b \in TypeIdSet : Before(b, a) })
  IN  Dict([ r \in 1..Len(TYPE_IDS) |-> CHOOSE a \in TypeIdSet : Rank(a) = r - 1 ])

\* contributing = sorted(...)[:3]
Contributing(weights) == SubSeq(SortedByWeight(weights), 1, 3)

\* Variant of the weight a contributing type must exceed: 0.2.
CONTRIBUTION_THRESHOLD_Fifth == ONE \div 5

\* if w > 0.1
CONTRIBUTION_THRESHOLD == 100000

\* The three ladders on the coordinates of a center.
EdgePhrase(c) ==
  IF c.edge_coherence > 700000 THEN "architectural hard edges"
  ELSE IF c.edge_coherence > 400000 THEN "mixed edge negotiation"
  ELSE "feathered bleed edges"

SubstratePhrase(c) ==
  IF c.substrate_visibility > 700000 THEN "paper dominant"
  ELSE IF c.substrate_visibility > 300000 THEN "paper partially visible"
  ELSE "substrate hidden"

HydrologyPhrase(c) ==
  IF c.pigment_hydrology > 700000 THEN "wet flooding behavior"
  ELSE IF c.pigment_hydrology > 300000 THEN "controlled wash"
  ELSE "dry technique"

\* Variant in which every type of contributing passes.
PassingTypes_NoThreshold(weights) == Contributing(weights)

\* The types of contributing that pass `if w > 0.1`, in order.
PassingTypes(weights) ==
  SelectSeq(Contributing(weights), LAMBDA tid : weights[tid] > CONTRIBUTION_THRESHOLD)

\* The phrase the ladder of a category chooses for a center.
LadderPhrase(category, c) ==
  CASE category = "edge"      -> EdgePhrase(c)
    [] category = "substrate" -> SubstratePhrase(c)
    [] category = "hydrology" -> HydrologyPhrase(c)

\* A descriptor list: one phrase for each passing type, chosen by the ladder
\* from the center of the type and naming the type.
Descriptors(h, weights, category) ==
  LET passing == PassingTypes(weights)
  IN  Dict([ j \in 1..Len(passing) |->
               [ phrase |-> LadderPhrase(category, h[VISUAL_TYPES[passing[j]].center]),
                 from |-> passing[j] ] ])

\* descriptors[:3] if descriptors else [fallback]
Character(descriptors, fallback) ==
  IF descriptors # << >>
  THEN SubSeq(descriptors, 1, Min2(3, Len(descriptors)))
  ELSE << [ phrase |-> fallback, from |-> None ] >>

\* The phrases chosen from the query point itself (without the percentage).
DissolutionCharacter(state) ==
  IF state.dissolution_rate < 300000 THEN "photographic dominant"
  ELSE IF state.dissolution_rate < 600000 THEN "mid-dissolution tension"
  ELSE "painterly dominant"

AnchorCharacter(state) ==
  IF state.anchor_density > 700000 THEN "dense photographic anchors throughout"
  ELSE IF state.anchor_density > 300000 THEN "scattered fidelity anchors"
  ELSE "minimal anchoring"

\* _interpolate_vocabulary: "vocabulary_by_category".
VocabularyByCategory(h, state) ==
  LET weights == VocabularyWeights(h, state)
  IN  [ dissolution_character |-> << DissolutionCharacter(state) >>,
        edge_character |->
          Character(Descriptors(h, weights, "edge"), "balanced edge mix"),
        substrate_character |->
          Character(Descriptors(h, weights, "substrate"), "moderate paper visibility"),
        hydrology_character |->
          Character(Descriptors(h, weights, "hydrology"), "controlled wash behavior"),
        anchor_character |-> << AnchorCharacter(state) >> ]

VocabularyResult(h, state, dissolution_id, strength) ==
  LET s == VocabularyState(h, state, dissolution_id)
  IN  IF s = NoDict
      THEN [ kind |-> "error", error |-> << "Provide either state dict or dissolution_id" >> ]
      \* _interpolate_vocabulary reads all five coordinates
      ELSE IF ~HasAllKeys(s[1]) THEN [ kind |-> "fault", exception |-> "KeyError" ]
      ELSE LET nearest == nearest_visual_type(h, s[1])
           IN  [ kind |-> "ok",
                 nearest_visual_type |-> nearest.id,
                 distance |-> nearest.dist,
                 vocabulary_by_category |-> VocabularyByCategory(h, s[1]),
                 strength |-> strength,
                 input_state |-> s[1] ]


\* --------------------------------- decompose_dissolution_from_description

\* The terms a map lists for a visual type: map.get(tid, []).
TermsIn(map, tid) ==
  IF \E j \in 1..Len(map) : map[j].id = tid
  THEN map[CHOOSE j \in 1..Len(map) : map[j].id = tid].terms
  ELSE << >>

\* Variant of the score that finds no term in any text.
DecomposeScore_NothingMatches(tid, text) == 0

\* score of a type: 1 for each fragment in the text, 0.5 for each optical
\* and each color term.
DecomposeScore(tid, text) ==
  ONE * Len(Matches(TermsIn(fragment_map, tid), text))
  + (ONE \div 2) * Len(Matches(TermsIn(optical_map, tid), text))
  + (ONE \div 2) * Len(Matches(TermsIn(color_map, tid), text))

\* set(matched_fragments)
MatchedFragments(text) ==
  UNION { { m[j].terms[i] : i \in { i \in 1..Len(m[j].terms) :
                                      Contains(m[j].terms[i], text) } } :
          m \in { fragment_map, optical_map, color_map }, j \in 1..Len(TYPE_IDS) }

\* Variant of the weighted sum with every weight doubled (weights that sum
\* to 2 instead of 1).
RECURSIVE WeightedSum_DoubledWeights(_, _, _, _)
WeightedSum_DoubledWeights(h, weights, k, i) ==
  IF i > Len(TYPE_IDS) THEN 0
  ELSE LET tid == TYPE_IDS[i]
       IN  MulFix(2 * weights[tid], h[VISUAL_TYPES[tid].center][k])
           + WeightedSum_DoubledWeights(h, weights, k, i + 1)

\* coordinates[k]: the sum of w * center[k] over weights.items(), from entry
\* i on.
RECURSIVE WeightedSum(_, _, _, _)
WeightedSum(h, weights, k, i) ==
  IF i > Len(TYPE_IDS) THEN 0
  ELSE LET tid == TYPE_IDS[i]
       IN  MulFix(weights[tid], h[VISUAL_TYPES[tid].center][k])
           + WeightedSum(h, weights, k, i + 1)

\* The loop for tid in VISUAL_TYPES from entry i on: type_scores[tid] = score.
RECURSIVE DecomposeScores(_, _)
DecomposeScores(text, i) ==
  IF i > Len(TYPE_IDS) THEN << >>
  ELSE (TYPE_IDS[i] :> DecomposeScore(TYPE_IDS[i], text)) @@ DecomposeScores(text, i + 1)

\* The record decompose_dissolution_from_description returns.
DecomposeResult(h, description) ==
  LET text == Lower(description)
      type_scores == DecomposeScores(text, 1)
      weights == softmax(type_scores, ONE)
      coordinates == Dict([ k \in ParamSet |-> WeightedSum(h, weights, k, 1) ])
      total_matches == SumOver(type_scores, 1)
      confidence == Min2(ONE, total_matches \div 8)
      nearest == nearest_visual_type(h, coordinates)
  IN  [ kind |-> "ok",
        coordinates |-> RoundState(coordinates),
        confidence |-> Round4(confidence),
        nearest_type |-> nearest.id,
        nearest_type_distance |-> Round4(nearest.dist),
        type_scores |-> type_scores,
        type_weights |-> [ tid \in TypeIdSet |-> Round4(weights[tid]) ],
        matched_fragments |-> MatchedFragments(text),
        detected |-> total_matches > 0 ]

\* --------------------------------------------- enhance_dissolution_prompt

\* Variant of the style choice that never applies the override.
EnhanceStyle_IgnoreOverride(style_override, primary_style) == primary_style

\* style_id: style_override or primary_style, and primary_style again when
\* that is no visual type.
EnhanceStyle(style_override, primary_style) ==
  LET style_id == IF style_override # None /\ style_override # ""
                  THEN style_override ELSE primary_style
  IN  IF style_id \notin DOMAIN VISUAL_TYPES THEN primary_style ELSE style_id

\* Variant of EnhanceResult that generates the prompt and the vocabulary for
\* the mapped parameter state instead of the applied style's id.
EnhanceResult_FromMappedState(h, user_intent, style_override, substrate, intensity) ==
  LET classification == ClassifyResult(h, user_intent)
      style_id == EnhanceStyle(style_override, classification.primary_style)
      params == MapResult(h, style_id, intensity, "balanced", substrate)
      h2 == HeapAfterMap(h, style_id, intensity, "balanced")
      prompt_data == AttractorPromptResult(h2, style_id, Some(params.state), "composite", "", 4)
      vocab == VocabularyResult(h2, Some(params.state), None, ONE)
  IN  IF params.kind # "ok" \/ prompt_data.kind # "ok" \/ vocab.kind # "ok"
      THEN [ kind |-> "fault", exception |-> "KeyError" ]
      ELSE [ kind |-> "ok",
             detected_style |-> classification.primary_style,
             applied_style |-> style_id,
             confidence |-> classification.confidence,
             matched_keywords |-> classification.matched_keywords,
             state |-> params.state,
             intensity |-> intensity,
             style_name |-> params.style_name,
             active_edge_modes |-> params.active_edge_modes,
             hydrology_state |-> params.hydrology_state,
             contrast_curve |-> params.contrast_curve,
             substrate |-> params.substrate,
             prompt |-> prompt_data.prompt,
             keywords |-> params.keywords,
             characteristics |-> params.characteristics,
             vocabulary_of |-> vocab.nearest_visual_type,
             vocabulary |-> vocab.vocabulary_by_category ]

\* The record enhance_dissolution_prompt returns: it reads the key of each
\* nested answer with [...], so a nested error record raises KeyError.
EnhanceResult(h, user_intent, style_override, substrate, intensity) ==
  LET classification == ClassifyResult(h, user_intent)
      style_id == EnhanceStyle(style_override, classification.primary_style)
      params == MapResult(h, style_id, intensity, "balanced", substrate)
      h2 == HeapAfterMap(h, style_id, intensity, "balanced")
      prompt_data == AttractorPromptResult(h2, style_id, NoDict, "composite", "", 4)
      vocab == VocabularyResult(h2, NoDict, style_id, ONE)
  IN  IF params.kind # "ok" \/ prompt_data.kind # "ok" \/ vocab.kind # "ok"
      THEN [ kind |-> "fault", exception |-> "KeyError" ]
      ELSE [ kind |-> "ok",
             detected_style |-> classification.primary_style,
             applied_style |-> style_id,
             confidence |-> classification.confidence,
             matched_keywords |-> classification.matched_keywords,
             state |-> params.state,
             intensity |-> intensity,
             style_name |-> params.style_name,
             active_edge_modes |-> params.active_edge_modes,
             hydrology_state |-> params.hydrology_state,
             contrast_curve |-> params.contrast_curve,
             substrate |-> params.substrate,
             prompt |-> prompt_data.prompt,
             keywords |-> params.keywords,
             characteristics |-> params.characteristics,
             vocabulary_of |-> vocab.nearest_visual_type,
             vocabulary |-> vocab.vocabulary_by_category ]

\* The coordinate dicts of the tables after enhance_dissolution_prompt: its
\* only writer is the nested map_dissolution_parameters.
HeapAfterEnhance(h, user_intent, style_override, intensity) ==
  HeapAfterMap(h, EnhanceStyle(style_override, ClassifyResult(h, user_intent).primary_style),
               intensity, "balanced")

\* ------------------------------------------------------------------ inputs

\* " ".join of the phrases of a sequence of phrases.
RECURSIVE Join(_)
Join(ws) ==
  IF ws = << >> THEN << >>
  ELSE IF Len(ws) = 1 THEN ws[1]
  ELSE ws[1] \o << " " >> \o Join(Tail(ws))

\* The texts given to the classifier: up to MaxWords phrases of Lexicon.
Texts ==
  UNION { { Join(ws) : ws \in [1..n -> Lexicon] } : n \in 0..MaxWords }

\* Style ids: the six visual types, a canonical state that is no visual
\* type, and an id of no catalog.
StyleInputs == TypeIdSet \cup { "light_wash", "nope" }

IntensityInputs == { "subtle", "moderate", "dramatic", "extreme" }

EmphasisInputs ==
  { "dissolution", "edge", "substrate", "hydrology", "balanced", "anchor" }

SubstrateInputs == { None, "rough", "vellum" }

\* Ids of every catalog, the empty id and an id of no catalog.
IdInputs == CanonicalIdSet \cup TypeIdSet \cup AttractorIdSet \cup { "", "nope" }

\* The ids the sampled operations are called with: a visual type, a canonical
\* state, two attractor presets, an id of no catalog.
SampleIds ==
  { "editorial_wash", "chromatic_flood", "light_wash", "balanced_study", "nope" }

RhythmIds == { "editorial_wash", "saturated_tide", "nope" }

PatternInputs == { "sinusoidal", "triangle", "sawtooth", "square" }

\* phase_offset: 0.0 and 0.25
PhaseInputs == { 0, ONE \div 4 }

ModeInputs == { "composite", "split_view", "sequence", "mosaic" }

ModifierInputs == { "", "ink" }

\* Dicts given as custom_state / state: none, an empty one, a full point,
\* a point at the same distance from full_dissolution and chromatic_flood
\* and farther from the other types, a point outside the unit cube and far
\* from every type, one without anchor_density.
DictInputs ==
  { NoDict,
    Some(<< >>),
    Some(Pt(40, 65, 72, 81, 30)),
    Some(Pt(85, 5, 45, 60, 0)),
    Some(Pt(150, 150, 150, 150, 150)),
    Some([ dissolution_rate |-> 400000, edge_coherence |-> 650000,
           substrate_visibility |-> 720000, pigment_hydrology |-> 810000 ]) }

\* The descriptions given to the decomposer: up to MaxWords phrases of
\* DecomposeLexicon.
Descriptions ==
  UNION { { Join(ws) : ws \in [1..n -> DecomposeLexicon] } : n \in 0..MaxWords }

\* The texts given to enhance_dissolution_prompt: the empty text and the
\* phrases of Lexicon.
EnhanceTexts == { << >> } \cup Lexicon

\* style_override: none, empty, two visual types, a canonical state that is
\* no visual type, an id of no catalog.
OverrideInputs ==
  { None, "", "editorial_wash", "chromatic_flood", "light_wash", "nope" }

PresetInputs == PresetIdSet \cup { "nope" }

\* ------------------------- validate_dissolution_decomposition_round_trip

\* VISUAL_TYPES[tid]["keywords"]: the 8 phrases of each type, as texts.
KEYWORD_PHRASES ==
  [
    editorial_wash |-> <<
       <<"c","o","n","t","r","o","l","l","e","d"," ","c","o","l","o","r"," ","a","c","c","e","n","t"," ","o","n"," ","p","h","o","t","o","g","r","a","p","h","i","c"," ","b","a","s","e">>,   \* "controlled color accent on photographic base"
       <<"s","e","l","e","c","t","i","v","e"," ","b","a","c","k","g","r","o","u","n","d"," ","w","a","s","h"," ","w","i","t","h"," ","s","h","a","r","p"," ","s","u","b","j","e","c","t"," ","r","e","t","e","n","t","i","o","n">>,   \* "selective background wash with sharp subject retention"
       <<"e","d","i","t","o","r","i","a","l"," ","s","u","b","s","t","r","a","t","e"," ","p","r","e","s","e","r","v","e","d"," ","t","h","r","o","u","g","h"," ","d","i","s","c","i","p","l","i","n","e","d"," ","p","i","g","m","e","n","t">>,   \* "editorial substrate preserved through disciplined pigment"
       <<"s","h","a","r","p"," ","s","u","b","j","e","c","t"," ","s","i","l","h","o","u","e","t","t","e"," ","a","g","a","i","n","s","t"," ","s","o","f","t"," ","c","o","l","o","r"," ","f","i","e","l","d">>,   \* "sharp subject silhouette against soft color field"
       <<"m","a","g","a","z","i","n","e"," ","i","l","l","u","s","t","r","a","t","i","o","n"," ","q","u","a","l","i","t","y"," ","w","a","t","e","r","c","o","l","o","r"," ","a","t","m","o","s","p","h","e","r","e">>,   \* "magazine illustration quality watercolor atmosphere"
       <<"d","e","c","o","r","a","t","i","v","e"," ","w","a","t","e","r","c","o","l","o","r"," ","b","o","r","d","e","r"," ","f","r","a","m","i","n","g"," ","p","h","o","t","o","g","r","a","p","h","i","c"," ","c","o","n","t","e","n","t">>,   \* "decorative watercolor border framing photographic content"
       <<"m","i","n","i","m","a","l"," ","d","i","s","s","o","l","u","t","i","o","n"," ","p","r","e","s","e","r","v","i","n","g"," ","c","o","m","p","o","s","i","t","i","o","n","a","l"," ","h","i","e","r","a","r","c","h","y">>,   \* "minimal dissolution preserving compositional hierarchy"
       <<"r","e","s","t","r","a","i","n","e","d"," ","w","a","s","h"," ","e","n","h","a","n","c","i","n","g"," ","w","i","t","h","o","u","t"," ","o","v","e","r","r","i","d","i","n","g"," ","s","o","u","r","c","e">>   \* "restrained wash enhancing without overriding source"
    >>,
    contested_boundary |-> <<
       <<"c","o","m","p","e","t","i","n","g"," ","v","i","s","u","a","l"," ","r","e","g","i","m","e","s"," ","i","n"," ","u","n","r","e","s","o","l","v","e","d"," ","t","e","n","s","i","o","n">>,   \* "competing visual regimes in unresolved tension"
       <<"c","o","e","x","i","s","t","i","n","g"," ","e","d","g","e"," ","t","y","p","e","s"," ","f","r","o","m"," ","a","r","c","h","i","t","e","c","t","u","r","a","l"," ","t","o"," ","c","a","u","l","i","f","l","o","w","e","r"," ","b","a","c","k","r","u","n">>,   \* "coexisting edge types from architectural to cauliflower backrun"
       <<"s","e","l","e","c","t","i","v","e"," ","d","i","s","s","o","l","u","t","i","o","n"," ","f","r","o","z","e","n"," ","m","i","d","-","p","r","o","c","e","s","s">>,   \* "selective dissolution frozen mid-process"
       <<"n","e","i","t","h","e","r"," ","p","h","o","t","o","g","r","a","p","h"," ","n","o","r"," ","p","a","i","n","t","i","n","g"," ","b","u","t"," ","o","s","c","i","l","l","a","t","i","n","g"," ","b","e","t","w","e","e","n">>,   \* "neither photograph nor painting but oscillating between"
       <<"m","u","r","a","l","-","w","a","l","l"," ","b","o","u","n","d","a","r","y"," ","b","l","e","e","d","i","n","g"," ","a","c","r","o","s","s"," ","m","e","d","i","a"," ","r","e","g","i","m","e","s">>,   \* "mural-wall boundary bleeding across media regimes"
       <<"f","i","g","u","r","e"," ","s","i","l","h","o","u","e","t","t","e"," ","c","u","t","t","i","n","g"," ","t","h","r","o","u","g","h"," ","w","a","s","h"," ","f","i","e","l","d">>,   \* "figure silhouette cutting through wash field"
       <<"p","h","o","t","o","g","r","a","p","h","i","c"," ","a","n","c","h","o","r","s"," ","a","m","i","d"," ","p","a","i","n","t","e","r","l","y"," ","d","i","s","s","o","l","u","t","i","o","n"," ","z","o","n","e","s">>,   \* "photographic anchors amid painterly dissolution zones"
       <<"c","a","u","l","i","f","l","o","w","e","r"," ","b","a","c","k","r","u","n"," ","a","g","a","i","n","s","t"," ","a","r","c","h","i","t","e","c","t","u","r","a","l"," ","h","a","r","d"," ","e","d","g","e">>   \* "cauliflower backrun against architectural hard edge"
    >>,
    full_dissolution |-> <<
       <<"c","o","m","p","l","e","t","e"," ","p","a","i","n","t","e","r","l","y"," ","t","a","k","e","o","v","e","r"," ","o","f"," ","p","h","o","t","o","g","r","a","p","h","i","c"," ","s","o","u","r","c","e">>,   \* "complete painterly takeover of photographic source"
       <<"p","a","p","e","r"," ","t","e","x","t","u","r","e"," ","a","s"," ","c","o","-","s","u","b","j","e","c","t"," ","w","i","t","h"," ","p","i","g","m","e","n","t"," ","b","e","h","a","v","i","o","r">>,   \* "paper texture as co-subject with pigment behavior"
       <<"p","i","g","m","e","n","t"," ","b","l","o","o","m"," ","d","o","m","i","n","a","n","t"," ","o","v","e","r"," ","r","e","p","r","e","s","e","n","t","a","t","i","o","n","a","l"," ","c","o","n","t","e","n","t">>,   \* "pigment bloom dominant over representational content"
       <<"b","a","c","k","r","u","n"," ","c","a","u","l","i","f","l","o","w","e","r"," ","e","d","g","e","s"," ","d","e","f","i","n","i","n","g"," ","a","l","l"," ","b","o","u","n","d","a","r","i","e","s">>,   \* "backrun cauliflower edges defining all boundaries"
       <<"g","r","a","n","u","l","a","t","i","o","n"," ","r","e","v","e","a","l","i","n","g"," ","p","a","p","e","r"," ","t","o","o","t","h"," ","t","h","r","o","u","g","h"," ","d","i","l","u","t","e","d"," ","w","a","s","h">>,   \* "granulation revealing paper tooth through diluted wash"
       <<"w","e","t","-","o","n","-","w","e","t"," ","d","i","f","f","u","s","i","o","n"," ","f","i","e","l","d","s"," ","r","e","p","l","a","c","i","n","g"," ","h","a","r","d"," ","d","e","t","a","i","l">>,   \* "wet-on-wet diffusion fields replacing hard detail"
       <<"v","a","g","u","e"," ","p","h","o","t","o","g","r","a","p","h","i","c"," ","m","e","m","o","r","y"," ","b","e","n","e","a","t","h"," ","l","o","o","s","e"," ","w","a","t","e","r","c","o","l","o","r">>,   \* "vague photographic memory beneath loose watercolor"
       <<"w","h","i","t","e"," ","p","a","p","e","r"," ","b","r","e","a","t","h","i","n","g"," ","t","h","r","o","u","g","h"," ","c","o","m","p","o","s","i","t","i","o","n"," ","a","s"," ","a","c","t","i","v","e"," ","e","l","e","m","e","n","t">>   \* "white paper breathing through composition as active element"
    >>,
    ghost_impression |-> <<
       <<"f","a","d","e","d"," ","d","r","y","-","t","e","c","h","n","i","q","u","e"," ","d","i","s","s","o","l","u","t","i","o","n"," ","p","r","e","s","e","r","v","i","n","g"," ","e","d","g","e"," ","s","t","r","u","c","t","u","r","e">>,   \* "faded dry-technique dissolution preserving edge structure"
       <<"c","r","i","s","p"," ","e","d","g","e","s"," ","p","e","r","s","i","s","t","i","n","g"," ","d","e","s","p","i","t","e"," ","d","i","s","s","o","l","v","e","d"," ","c","o","n","t","e","n","t"," ","f","i","l","l">>,   \* "crisp edges persisting despite dissolved content fill"
       <<"b","l","u","e","p","r","i","n","t"," ","t","h","r","o","u","g","h"," ","t","e","a"," ","w","a","s","h"," ","p","a","l","i","m","p","s","e","s","t"," ","a","e","s","t","h","e","t","i","c">>,   \* "blueprint through tea wash palimpsest aesthetic"
       <<"a","r","c","h","i","t","e","c","t","u","r","a","l"," ","g","h","o","s","t"," ","d","r","a","w","i","n","g"," ","o","n"," ","a","g","e","d"," ","p","a","p","e","r">>,   \* "architectural ghost drawing on aged paper"
       <<"c","a","r","t","o","g","r","a","p","h","i","c"," ","p","a","l","i","m","p","s","e","s","t"," ","w","i","t","h"," ","s","t","r","u","c","t","u","r","a","l"," ","t","r","a","c","e","s">>,   \* "cartographic palimpsest with structural traces"
       <<"m","i","n","i","m","a","l"," ","p","i","g","m","e","n","t"," ","w","i","t","h"," ","m","a","x","i","m","u","m"," ","s","t","r","u","c","t","u","r","a","l"," ","r","e","t","e","n","t","i","o","n">>,   \* "minimal pigment with maximum structural retention"
       <<"s","u","n","-","b","l","e","a","c","h","e","d"," ","w","a","t","e","r","c","o","l","o","r"," ","m","e","m","o","r","y"," ","o","f"," ","f","o","r","m","e","r"," ","c","o","n","t","e","n","t">>,   \* "sun-bleached watercolor memory of former content"
       <<"s","k","e","l","e","t","a","l"," ","f","r","a","m","e","w","o","r","k"," ","v","i","s","i","b","l","e"," ","t","h","r","o","u","g","h"," ","t","r","a","n","s","l","u","c","e","n","t"," ","w","a","s","h"," ","f","i","e","l","d">>   \* "skeletal framework visible through translucent wash field"
    >>,
    substrate_emergence |-> <<
       <<"p","a","p","e","r"," ","a","s"," ","p","r","i","m","a","r","y"," ","s","u","b","j","e","c","t"," ","o","v","e","r"," ","p","i","g","m","e","n","t"," ","c","o","n","t","e","n","t">>,   \* "paper as primary subject over pigment content"
       <<"n","e","g","a","t","i","v","e"," ","s","p","a","c","e"," ","c","a","r","r","y","i","n","g"," ","p","o","s","i","t","i","v","e"," ","c","o","m","p","o","s","i","t","i","o","n","a","l"," ","w","e","i","g","h","t">>,   \* "negative space carrying positive compositional weight"
       <<"d","e","l","i","b","e","r","a","t","e"," ","w","h","i","t","e"," ","s","p","a","c","e"," ","a","s"," ","c","o","m","p","o","s","i","t","i","o","n","a","l"," ","s","t","r","a","t","e","g","y">>,   \* "deliberate white space as compositional strategy"
       <<"b","r","e","a","t","h"," ","b","e","t","w","e","e","n"," ","p","a","i","n","t","e","d"," ","a","r","e","a","s"," ","d","e","f","i","n","i","n","g"," ","r","h","y","t","h","m">>,   \* "breath between painted areas defining rhythm"
       <<"m","a"," ","a","e","s","t","h","e","t","i","c"," ","a","p","p","l","i","e","d"," ","t","o"," ","w","a","t","e","r","c","o","l","o","r"," ","i","n","t","e","r","v","a","l","s">>,   \* "ma aesthetic applied to watercolor intervals"
       <<"u","n","p","a","i","n","t","e","d"," ","g","r","o","u","n","d"," ","a","s"," ","l","i","g","h","t"," ","s","o","u","r","c","e"," ","a","n","d"," ","s","t","r","u","c","t","u","r","e">>,   \* "unpainted ground as light source and structure"
       <<"i","s","l","a","n","d"," ","m","a","r","k","s"," ","f","l","o","a","t","i","n","g"," ","o","n"," ","p","a","p","e","r"," ","o","c","e","a","n">>,   \* "island marks floating on paper ocean"
       <<"m","i","n","i","m","a","l","i","s","t"," ","w","a","s","h"," ","p","l","a","c","e","m","e","n","t"," ","w","i","t","h"," ","m","a","x","i","m","u","m"," ","r","e","s","t","r","a","i","n","t">>   \* "minimalist wash placement with maximum restraint"
    >>,
    chromatic_flood |-> <<
       <<"m","a","x","i","m","u","m"," ","w","e","t","-","o","n","-","w","e","t"," ","s","a","t","u","r","a","t","i","o","n"," ","f","l","o","o","d","i","n","g"," ","s","u","r","f","a","c","e">>,   \* "maximum wet-on-wet saturation flooding surface"
       <<"p","i","g","m","e","n","t"," ","h","y","d","r","o","l","o","g","y"," ","a","s"," ","p","r","i","m","a","r","y"," ","c","o","n","t","e","n","t"," ","o","v","e","r"," ","s","u","b","j","e","c","t">>,   \* "pigment hydrology as primary content over subject"
       <<"g","r","a","v","i","t","y","-","f","e","d"," ","d","r","i","p"," ","a","n","d"," ","c","a","p","i","l","l","a","r","y"," ","a","c","t","i","o","n"," ","v","i","s","i","b","l","e">>,   \* "gravity-fed drip and capillary action visible"
       <<"b","l","o","o","m"," ","a","n","d"," ","b","a","c","k","r","u","n"," ","a","s"," ","s","u","b","j","e","c","t"," ","m","a","t","t","e","r"," ","n","o","t"," ","a","r","t","i","f","a","c","t">>,   \* "bloom and backrun as subject matter not artifact"
       <<"c","o","l","o","r"," ","f","i","e","l","d"," ","o","v","e","r","r","i","d","i","n","g"," ","r","e","p","r","e","s","e","n","t","a","t","i","o","n","a","l"," ","c","o","n","t","e","n","t">>,   \* "color field overriding representational content"
       <<"s","a","t","u","r","a","t","e","d"," ","w","a","s","h"," ","f","l","o","o","d","i","n","g"," ","s","u","b","s","t","r","a","t","e"," ","w","i","t","h"," ","p","i","g","m","e","n","t">>,   \* "saturated wash flooding substrate with pigment"
       <<"a","b","s","t","r","a","c","t"," ","e","x","p","r","e","s","s","i","o","n","i","s","t"," ","w","a","t","e","r","c","o","l","o","r"," ","e","n","e","r","g","y">>,   \* "abstract expressionist watercolor energy"
       <<"u","n","c","o","n","t","r","o","l","l","e","d"," ","p","i","g","m","e","n","t"," ","i","n","t","e","r","a","c","t","i","o","n"," ","c","r","e","a","t","i","n","g"," ","e","m","e","r","g","e","n","t"," ","p","a","t","t","e","r","n">>   \* "uncontrolled pigment interaction creating emergent pattern"
    >>
  ]

\* description = " ".join(t["keywords"])
RoundTripDescription(tid) == Join(KEYWORD_PHRASES[tid])

\* results[tid] for a type whose description was decomposed, with the error
\* before rounding.
RoundTripRecord(tid, original, decomposed, error) ==
  [ error |-> error,
    entry |-> [ original_center |-> original,
                recovered_coordinates |-> decomposed.coordinates,
                reconstruction_error |-> Round4(error),
                nearest_type_correct |-> decomposed.nearest_type = tid,
                recovered_nearest |-> decomposed.nearest_type,
                confidence |-> decomposed.confidence ] ]

\* error = _euclidean_distance(original, recovered)
RoundTripMeasured(tid, original, decomposed) ==
  RoundTripRecord(tid, original, decomposed,
                  euclidean_distance(original, decomposed.coordinates))

\* One pass of the loop over VISUAL_TYPES: the type's keywords are joined,
\* decomposed and compared with the type's center.
RoundTripEntry(h, tid) ==
  RoundTripMeasured(tid, h[VISUAL_TYPES[tid].center],
                    DecomposeResult(h, RoundTripDescription(tid)))

\* sum of f[tid] over the visual types from entry i on.
RECURSIVE RoundTripTotal(_, _)
RoundTripTotal(f, i) ==
  IF i > Len(TYPE_IDS) THEN 0 ELSE f[TYPE_IDS[i]] + RoundTripTotal(f, i + 1)

\* The returned record, from the entries of the six types.
RoundTripSummary(results, n) ==
  [ kind |-> "ok",
    n_types_tested |-> n,
    nearest_type_accuracy |->
      Round4(RoundDiv(RoundTripTotal([ tid \in TypeIdSet |->
                IF results[tid].entry.nearest_type_correct THEN 1 ELSE 0 ], 1) * ONE, n)),
    mean_reconstruction_error |->
      Round4(RoundDiv(RoundTripTotal([ tid \in TypeIdSet |-> results[tid].error ], 1), n)),
    per_type_results |-> [ tid \in TypeIdSet |-> results[tid].entry ] ]

\* The record validate_dissolution_decomposition_round_trip returns.
RoundTripResult(h) ==
  RoundTripSummary(Dict([ tid \in TypeIdSet |-> RoundTripEntry(h, tid) ]), Len(TYPE_IDS))

\* ------------------------------------------------------------------- state

VARIABLES
  pc,      \* "idle", or "returned" once an operation has produced its answer
  call,    \* the operation invoked and its arguments
  result,  \* the record it returned, or the exception it raised
  heap     \* the coordinate dicts of the taxonomy tables, by owner id

vars == << pc, call, result, heap >>

Init ==
  /\ pc = "idle"
  /\ call = [ op |-> "none" ]
  /\ result = [ kind |-> "none" ]
  /\ heap = InitialPoints

classify_dissolution_intent ==
  /\ pc = "idle"
  /\ \E user_intent \in Texts :
       /\ call' = [ op |-> "classify_dissolution_intent", user_intent |-> user_intent ]
       /\ result' = ClassifyResult(heap, user_intent)
  /\ pc' = "returned"
  /\ UNCHANGED heap

map_dissolution_parameters ==
  /\ pc = "idle"
  /\ \E style_id \in StyleInputs, intensity \in IntensityInputs,
        emphasis \in EmphasisInputs, substrate \in SubstrateInputs :
       /\ call' = [ op |-> "map_dissolution_parameters", style_id |-> style_id,
                 intensity |-> intensity, emphasis |-> emphasis,
                 substrate |-> substrate ]
       /\ result' = MapResult(heap, style_id, intensity, emphasis, substrate)
       /\ heap' = HeapAfterMap(heap, style_id, intensity, emphasis)
  /\ pc' = "returned"

get_dissolution_style_details ==
  /\ pc = "idle"
  /\ \E style_id \in StyleInputs :
       /\ call' = [ op |-> "get_dissolution_style_details", style_id |-> style_id ]
       /\ result' = StyleDetailsResult(heap, style_id)
  /\ pc' = "returned"
  /\ UNCHANGED heap

extract_dissolution_visual_vocabulary ==
  /\ pc = "idle"
  /\ \E state \in DictInputs, dissolution_id \in SampleIds \cup { None, "" } :
       /\ call' = [ op |-> "extract_dissolution_visual_vocabulary", state |-> state,
                 dissolution_id |-> dissolution_id, strength |-> ONE ]
       /\ result' = VocabularyResult(heap, state, dissolution_id, ONE)
  /\ pc' = "returned"
  /\ UNCHANGED heap

compute_dissolution_distance ==
  /\ pc = "idle"
  /\ \E id_1 \in IdInputs, id_2 \in IdInputs :
       /\ call' = [ op |-> "compute_dissolution_distance", id_1 |-> id_1, id_2 |-> id_2 ]
       /\ result' = DistanceResult(heap, id_1, id_2)
  /\ pc' = "returned"
  /\ UNCHANGED heap

compute_dissolution_trajectory ==
  /\ pc = "idle"
  /\ \E start_id \in SampleIds, end_id \in SampleIds, num_steps \in -1..MaxSteps :
       /\ call' = [ op |-> "compute_dissolution_trajectory", start_id |-> start_id,
                 end_id |-> end_id, num_steps |-> num_steps ]
       /\ result' = TrajectoryResult(heap, start_id, end_id, num_steps)
  /\ pc' = "returned"
  /\ UNCHANGED heap

generate_dissolution_attractor_prompt ==
  /\ pc = "idle"
  /\ \E attractor_id \in SampleIds \cup { "" }, custom_state \in DictInputs,
        mode \in ModeInputs, style_modifier \in ModifierInputs,
        keyframe_count \in 0..MaxKeyframes :
       /\ call' = [ op |-> "generate_dissolution_attractor_prompt",
                 attractor_id |-> attractor_id, custom_state |-> custom_state,
                 mode |-> mode, style_modifier |-> style_modifier,
                 keyframe_count |-> keyframe_count ]
       /\ result' = AttractorPromptResult(heap, attractor_id, custom_state, mode,
                   style_modifier, keyframe_count)
  /\ pc' = "returned"
  /\ UNCHANGED heap

generate_dissolution_rhythmic_sequence ==
  /\ pc = "idle"
  /\ \E state_a_id \in RhythmIds, state_b_id \in RhythmIds,
        steps_per_cycle \in 0..MaxPeriod, num_cycles \in 0..MaxCycles,
        oscillation_pattern \in PatternInputs, phase_offset \in PhaseInputs :
       /\ call' = [ op |-> "generate_dissolution_rhythmic_sequence",
                 state_a_id |-> state_a_id, state_b_id |-> state_b_id,
                 steps_per_cycle |-> steps_per_cycle, num_cycles |-> num_cycles,
                 oscillation_pattern |-> oscillation_pattern,
                 phase_offset |-> phase_offset ]
       /\ result' = RhythmicSequenceResult(heap, state_a_id, state_b_id, steps_per_cycle,
                   num_cycles, oscillation_pattern, phase_offset)
  /\ pc' = "returned"
  /\ UNCHANGED heap

apply_dissolution_rhythmic_preset ==
  /\ pc = "idle"
  /\ \E preset_name \in PresetInputs :
       /\ call' = [ op |-> "apply_dissolution_rhythmic_preset", preset_name |-> preset_name ]
       /\ result' = RhythmicPresetResult(heap, preset_name)
  /\ pc' = "returned"
  /\ UNCHANGED heap

generate_dissolution_sequence_prompts ==
  /\ pc = "idle"
  /\ \E preset_name \in PresetInputs, keyframe_count \in 0..MaxKeyframes,
        style_modifier \in ModifierInputs :
       /\ call' = [ op |-> "generate_dissolution_sequence_prompts",
                 preset_name |-> preset_name, keyframe_count |-> keyframe_count,
                 style_modifier |-> style_modifier ]
       /\ result' = SequencePromptsResult(heap, preset_name, keyframe_count, style_modifier)
  /\ pc' = "returned"
  /\ UNCHANGED heap

decompose_dissolution_from_description ==
  /\ pc = "idle"
  /\ \E description \in Descriptions :
       /\ call' = [ op |-> "decompose_dissolution_from_description",
                    description |-> description ]
       /\ result' = DecomposeResult(heap, description)
  /\ pc' = "returned"
  /\ UNCHANGED heap

enhance_dissolution_prompt ==
  /\ pc = "idle"
  /\ \E user_intent \in EnhanceTexts, style_override \in OverrideInputs,
        substrate \in { None, "rough" },
        intensity \in { "moderate", "dramatic", "extreme" } :
       /\ call' = [ op |-> "enhance_dissolution_prompt", user_intent |-> user_intent,
                    style_override |-> style_override, substrate |-> substrate,
                    intensity |-> intensity ]
       /\ result' = EnhanceResult(heap, user_intent, style_override, substrate, intensity)
       /\ heap' = HeapAfterEnhance(heap, user_intent, style_override, intensity)
  /\ pc' = "returned"

validate_dissolution_decomposition_round_trip ==
  /\ pc = "idle"
  /\ call' = [ op |-> "validate_dissolution_decomposition_round_trip" ]
  /\ result' = RoundTripResult(heap)
  /\ pc' = "returned"
  /\ UNCHANGED heap

\* The answer goes to the transport; the server is ready for the next call.
Return ==
  /\ pc = "returned"
  /\ pc' = "idle"
  /\ call' = [ op |-> "none" ]
  /\ result' = [ kind |-> "none" ]
  /\ UNCHANGED heap

Next ==
  \/ classify_dissolution_intent
  \/ map_dissolution_parameters
  \/ get_dissolution_style_details
  \/ extract_dissolution_visual_vocabulary
  \/ compute_dissolution_distance
  \/ compute_dissolution_trajectory
  \/ generate_dissolution_attractor_prompt
  \/ generate_dissolution_rhythmic_sequence
  \/ apply_dissolution_rhythmic_preset
  \/ generate_dissolution_sequence_prompts
  \/ decompose_dissolution_from_description
  \/ enhance_dissolution_prompt
  \/ validate_dissolution_decomposition_round_trip
  \/ Return

Spec == Init /\ [][Next]_vars

\* ------------------------------------------------------------------ claims

\* The coordinate dict an id of the taxonomy stands for, from the tables as
\* declared.
DeclaredCenter(tid) == InitialPoints[tid]

IsCall(op) == pc = "returned" /\ call.op = op

\* C1: for each of the 6 visual types, each intensity (subtle = 0.6,
\* moderate = 1.0, dramatic = 1.4) and each emphasis, every coordinate k of
\* the state map_dissolution_parameters computes is
\* clamp(0.5 + (center[k] - 0.5) * intensity_scale + shift[k], 0, 1), so it
\* lies in [0, 1]; chromatic_flood at dramatic intensity has
\* pigment_hydrology = 1.0.
C1_Tenths(intensity) ==
  CASE intensity = "subtle" -> 6 [] intensity = "moderate" -> 10
    [] intensity = "dramatic" -> 14

C1_Expected(style_id, intensity, emphasis, k) ==
  LET v == 500000 + ((DeclaredCenter(style_id)[k] - 500000) * C1_Tenths(intensity)) \div 10
             + EmphasisShift(emphasis, k)
  IN  IF v < 0 THEN 0 ELSE IF v > 1000000 THEN 1000000 ELSE v

C1_MapStateScaledShiftedClamped ==
  (/\ IsCall("map_dissolution_parameters")
   /\ call.style_id \in TypeIdSet
   /\ call.intensity \in { "subtle", "moderate", "dramatic" })
  => /\ result.kind = "ok"
     /\ \A k \in ParamSet :
          /\ result.state[k] = C1_Expected(call.style_id, call.intensity, call.emphasis, k)
          /\ 0 <= result.state[k] /\ result.state[k] <= 1000000
     /\ (call.style_id = "chromatic_flood" /\ call.intensity = "dramatic")
          => result.state["pigment_hydrology"] = 1000000

\* chromatic_flood at dramatic intensity: 0.5 + 0.45 * 1.4 = 1.13 is clamped
\* to 1.0, and 0.5 - 0.35 * 1.4 = 0.01 is not.
C1_Witness ==
  /\ IsCall("map_dissolution_parameters")
  /\ call.style_id = "chromatic_flood" /\ call.intensity = "dramatic"
  /\ call.emphasis = "balanced"
  /\ result.kind = "ok"
  /\ result.state["pigment_hydrology"] = 1000000
  /\ result.state["anchor_density"] = 10000

\* C2 (as amended): compute_dissolution_distance reports as dominant_axis an
\* axis with the largest absolute per-axis difference between the two
\* resolved points, the first such axis in the canonical coordinate order;
\* for (editorial_wash, chromatic_flood) three axes tie at 0.75 and the axis
\* reported is dissolution_rate.
C2_IndexOf(k) == CHOOSE i \in 1..Len(PARAMETER_NAMES) : PARAMETER_NAMES[i] = k

C2_DiffsOfResolvedPoints ==
  \A k \in ParamSet :
    result.per_axis_difference[k] =
      resolve(heap, call.id_2)[1][k] - resolve(heap, call.id_1)[1][k]

C2_LargestDifference ==
  \A k \in ParamSet :
    Abs(result.per_axis_difference[k])
      <= Abs(result.per_axis_difference[result.dominant_axis])

C2_DominantAxisFirstLargest ==
  (IsCall("compute_dissolution_distance") /\ result.kind = "ok")
  => /\ C2_DiffsOfResolvedPoints
     /\ C2_LargestDifference
     /\ \A k \in ParamSet :
          C2_IndexOf(k) < C2_IndexOf(result.dominant_axis)
            => Abs(result.per_axis_difference[k])
                 < Abs(result.per_axis_difference[result.dominant_axis])
     /\ (call.id_1 = "editorial_wash" /\ call.id_2 = "chromatic_flood")
          => /\ result.dominant_axis = "dissolution_rate"
             /\ result.per_axis_difference["dissolution_rate"] = 750000
             /\ result.per_axis_difference["pigment_hydrology"] = 750000
             /\ result.per_axis_difference["anchor_density"] = -750000

C2_Witness ==
  /\ IsCall("compute_dissolution_distance")
  /\ call.id_1 = "editorial_wash" /\ call.id_2 = "chromatic_flood"
  /\ result.kind = "ok"
  /\ result.dominant_axis = "dissolution_rate"

\* C2 as stated: the dominant axis has the largest absolute difference, and
\* for (editorial_wash, chromatic_flood) it is pigment_hydrology.
C2_Original ==
  (IsCall("compute_dissolution_distance") /\ result.kind = "ok")
  => /\ C2_DiffsOfResolvedPoints
     /\ C2_LargestDifference
     /\ (call.id_1 = "editorial_wash" /\ call.id_2 = "chromatic_flood")
          => result.dominant_axis = "pigment_hydrology"

\* C3: in classify_dissolution_intent the hydrology hint is decided by the
\* first hydrology category, in declaration order, that has a term in the
\* text; no later category changes it.
RECURSIVE C3_FirstMatchingCategory(_, _)
C3_FirstMatchingCategory(text, i) ==
  IF i > Len(hydrology_terms) THEN "controlled_wash"
  ELSE IF \E j \in 1..Len(hydrology_terms[i].terms) :
            Contains(hydrology_terms[i].terms[j], text)
       THEN (IF hydrology_terms[i].id = "dry" THEN "dry_brush"
             ELSE hydrology_terms[i].id)
  ELSE C3_FirstMatchingCategory(text, i + 1)

C3_HydrologyFirstMatchWins ==
  IsCall("classify_dissolution_intent")
  => result.suggested_hydrology = C3_FirstMatchingCategory(call.user_intent, 1)

\* C4: classify_dissolution_intent selects the type with the highest count of
\* matched terms, the first declared winning ties, with confidence
\* min(1.0, max_count / 4.0); when every count is 0 it returns
\* contested_boundary with confidence exactly 0.3.
C4_Count(tid, text) ==
  LET terms == TermsOf(tid)
  IN  Cardinality({ j \in 1..Len(terms) : Contains(terms[j], text) })

C4_TypeIndex(tid) == CHOOSE i \in 1..Len(TYPE_IDS) : TYPE_IDS[i] = tid

C4_PrimaryStyleAndConfidence ==
  IsCall("classify_dissolution_intent")
  => LET text == call.user_intent
         top == result.primary_style
     IN  /\ result.kind = "ok"
         /\ \A tid \in TypeIdSet : result.type_scores[tid] = C4_Count(tid, text)
         /\ IF \A tid \in TypeIdSet : C4_Count(tid, text) = 0
            THEN top = "contested_boundary" /\ result.confidence = 300000
            ELSE /\ \A tid \in TypeIdSet : C4_Count(tid, text) <= C4_Count(top, text)
                 /\ \A tid \in TypeIdSet :
                      C4_TypeIndex(tid) < C4_TypeIndex(top)
                        => C4_Count(tid, text) < C4_Count(top, text)
                 /\ result.confidence =
                      (IF C4_Count(top, text) >= 4 THEN 1000000
                       ELSE C4_Count(top, text) * 250000)

\* A text on which two types tie for the highest count and the later
\* declared of them is not the one selected.
C4_Witness ==
  /\ IsCall("classify_dissolution_intent")
  /\ \E t1, t2 \in TypeIdSet :
       /\ C4_TypeIndex(t1) < C4_TypeIndex(t2)
       /\ result.type_scores[t1] = result.type_scores[t2]
       /\ result.type_scores[t1] > 0
       /\ \A t \in TypeIdSet : result.type_scores[t] <= result.type_scores[t1]
       /\ result.primary_style = t1
  /\ result.confidence < 1000000

\* C5: every unknown-identifier failure returns an error record that carries
\* the list of valid identifiers.
C5_UnknownIdentifierErrors == { "Unknown style", "Unknown id", "Unknown preset" }

C5_UnknownIdErrorsCarryValidIds ==
  (pc = "returned" /\ result.kind = "error"
   /\ result.error[1] \in C5_UnknownIdentifierErrors)
  => "valid" \in DOMAIN result

\* C6: generate_dissolution_attractor_prompt without a custom state and with
\* a given attractor_id of none of ATTRACTOR_PRESETS, VISUAL_TYPES and
\* CANONICAL_STATES returns an unknown-identifier error record, not a prompt.
C6_UnknownAttractorIsError ==
  (/\ IsCall("generate_dissolution_attractor_prompt")
   /\ ~Truthy(call.custom_state)
   /\ call.attractor_id # ""
   /\ call.attractor_id \notin
        (AttractorIdSet \cup TypeIdSet \cup CanonicalIdSet))
  => /\ result.kind = "error"
     /\ result.error[1] \in C5_UnknownIdentifierErrors

\* C7: extract_dissolution_visual_vocabulary returns the missing-input error
\* exactly when neither a state nor a dissolution_id is supplied; a supplied
\* dissolution_id of no catalog is reported as an unknown-identifier error.
C7_MissingInputError ==
  result.kind = "error"
  /\ result.error[1] = "Provide either state dict or dissolution_id"

C7_MissingVersusUnknown ==
  IsCall("extract_dissolution_visual_vocabulary")
  => /\ C7_MissingInputError
          <=> (call.state = NoDict /\ call.dissolution_id \in { None, "" })
     /\ (call.dissolution_id \notin
           ({ None, "" } \cup AttractorIdSet \cup TypeIdSet \cup CanonicalIdSet))
          => /\ result.kind = "error"
             /\ result.error[1] \in C5_UnknownIdentifierErrors

\* C8: no operation ends in a fault: every call whose dict arguments are
\* points (all five coordinates) ends with a success record or an error
\* record, also with num_steps = 0, steps_per_cycle = 0, num_cycles = 0 and
\* keyframe_count = 0 or 1.
C8_PointOrAbsent(opt) == opt = NoDict \/ HasAllKeys(opt[1]) \/ DOMAIN opt[1] = {}

C8_ArgumentsWellFormed ==
  /\ call.op = "generate_dissolution_attractor_prompt"
       => C8_PointOrAbsent(call.custom_state)
  /\ call.op = "extract_dissolution_visual_vocabulary"
       => (call.state = NoDict \/ HasAllKeys(call.state[1]))

C8_NoOperationFaults ==
  (pc = "returned" /\ C8_ArgumentsWellFormed)
  => result.kind \in { "ok", "error" }

\* C9: unrecognized enum-like strings never produce an error and behave as
\* the default: an unrecognized intensity as moderate, an unrecognized
\* emphasis as balanced, an unrecognized oscillation_pattern as sinusoidal.
C9_UnrecognizedFallsBackToDefault ==
  /\ (IsCall("map_dissolution_parameters") /\ call.style_id \in TypeIdSet)
     => /\ result.kind = "ok"
        /\ call.intensity \notin { "subtle", "moderate", "dramatic" }
             => result.state =
                  RoundState(MapState(DeclaredCenter(call.style_id), "moderate",
                                      call.emphasis))
        /\ call.emphasis \notin { "dissolution", "edge", "substrate", "hydrology",
                                  "balanced" }
             => result.state =
                  RoundState(MapState(DeclaredCenter(call.style_id), call.intensity,
                                      "balanced"))
  /\ (/\ IsCall("generate_dissolution_rhythmic_sequence")
      /\ resolve(heap, call.state_a_id) # NoDict
      /\ resolve(heap, call.state_b_id) # NoDict
      /\ call.oscillation_pattern \notin { "sinusoidal", "triangle", "sawtooth" })
     => /\ result.kind = "ok"
        /\ \A j \in 1..Len(result.sequence) :
             result.sequence[j].t =
               Round4(OscillationT("sinusoidal", result.sequence[j].step,
                                   call.steps_per_cycle, call.phase_offset))

\* An unrecognized intensity and an unrecognized emphasis in one call, on a
\* style whose state depends on both.
C9_Witness ==
  /\ IsCall("map_dissolution_parameters")
  /\ call.style_id = "editorial_wash"
  /\ call.intensity = "extreme" /\ call.emphasis = "anchor"
  /\ result.kind = "ok"
  /\ result.state = DeclaredCenter("editorial_wash")

\* C10: the contrast curve follows the priority order anchor_contrast
\* (anchor_density > 0.7), flood_flat (dissolution_rate > 0.8 and
\* pigment_hydrology > 0.8), high_key_dissolution (dissolution_rate > 0.6),
\* lifted_wash (substrate_visibility > 0.6), photographic_preserved; a state
\* satisfying several conditions gets the curve of the earliest.
C10_ContrastCurvePriority ==
  (IsCall("map_dissolution_parameters") /\ result.kind = "ok")
  => LET s == result.state
         r1 == s["anchor_density"] > 700000
         r2 == s["dissolution_rate"] > 800000 /\ s["pigment_hydrology"] > 800000
         r3 == s["dissolution_rate"] > 600000
         r4 == s["substrate_visibility"] > 600000
     IN  /\ r1 => result.contrast_curve = "anchor_contrast"
         /\ (~r1 /\ r2) => result.contrast_curve = "flood_flat"
         /\ (~r1 /\ ~r2 /\ r3) => result.contrast_curve = "high_key_dissolution"
         /\ (~r1 /\ ~r2 /\ ~r3 /\ r4) => result.contrast_curve = "lifted_wash"
         /\ (~r1 /\ ~r2 /\ ~r3 /\ ~r4)
              => result.contrast_curve = "photographic_preserved"

\* A state that satisfies the second, the third and the fourth condition.
C10_Witness ==
  /\ IsCall("map_dissolution_parameters")
  /\ result.kind = "ok"
  /\ result.state["anchor_density"] <= 700000
  /\ result.state["dissolution_rate"] > 800000
  /\ result.state["pigment_hydrology"] > 800000
  /\ result.state["substrate_visibility"] > 600000
  /\ result.contrast_curve = "flood_flat"

\* The coordinate values the band claims are evaluated on besides the states
\* the mapper computes: every hundredth of [0, 1] and the neighbours of the
\* band limits.
BandGrid ==
  { i * 10000 : i \in 0..100 }
    \cup { t + d : t \in { 150000, 300000, 350000, 400000, 550000, 600000,
                          700000, 800000 },
                   d \in { -1, 1 } }

\* C11: for every edge_coherence e in [0, 1], active_edge_modes is the
\* concatenation, in this order, of architectural_hard + silhouette_cut when
\* e > 0.6, cauliflower_backrun + granulation_boundary when 0.3 <= e <= 0.7,
\* and feathered_bleed + wet_lift when e < 0.4; it is never empty, has 2 or 4
\* entries, has 4 exactly when e is in [0.3, 0.4) or (0.6, 0.7], and never
\* holds both architectural_hard and feathered_bleed.
C11_Has(modes, id) == \E j \in 1..Len(modes) : modes[j] = id

C11_BandsOf(e, modes) ==
  LET hard == e > 600000
      mid  == 300000 <= e /\ e <= 700000
      soft == e < 400000
  IN  /\ modes =
           (IF hard THEN << "architectural_hard", "silhouette_cut" >> ELSE << >>)
           \o (IF mid THEN << "cauliflower_backrun", "granulation_boundary" >>
               ELSE << >>)
           \o (IF soft THEN << "feathered_bleed", "wet_lift" >> ELSE << >>)
      /\ modes # << >>
      /\ Len(modes) \in { 2, 4 }
      /\ Len(modes) = 4
           <=> ((300000 <= e /\ e < 400000) \/ (600000 < e /\ e <= 700000))
      /\ ~(C11_Has(modes, "architectural_hard") /\ C11_Has(modes, "feathered_bleed"))

C11_EdgeModeBands ==
  /\ (IsCall("map_dissolution_parameters") /\ result.kind = "ok")
       => C11_BandsOf(result.state["edge_coherence"], result.active_edge_modes)
  /\ IsCall("map_dissolution_parameters")
       => \A e \in BandGrid : C11_BandsOf(e, EdgeModes([ edge_coherence |-> e ]))

\* A mapped state in the overlap [0.3, 0.4): both the middle and the soft
\* band are active.
C11_Witness ==
  /\ IsCall("map_dissolution_parameters")
  /\ result.kind = "ok"
  /\ 300000 <= result.state["edge_coherence"]
  /\ result.state["edge_coherence"] < 400000
  /\ Len(result.active_edge_modes) = 4

\* C12: for every pigment_hydrology h in [0, 1], map_dissolution_parameters
\* selects exactly one hydrology state: dry_brush if h < 0.15, controlled_wash
\* if 0.15 <= h < 0.35, wet_on_dry if 0.35 <= h < 0.55, wet_on_wet if
\* 0.55 <= h < 0.8, flooding if h >= 0.8; the id is a key of HYDROLOGY_STATES,
\* so hydrology_details is never empty.
C12_BandOf(h, id) ==
  /\ h < 150000 => id = "dry_brush"
  /\ (150000 <= h /\ h < 350000) => id = "controlled_wash"
  /\ (350000 <= h /\ h < 550000) => id = "wet_on_dry"
  /\ (550000 <= h /\ h < 800000) => id = "wet_on_wet"
  /\ h >= 800000 => id = "flooding"
  /\ id \in HYDROLOGY_STATES

C12_HydrologyBands ==
  /\ (IsCall("map_dissolution_parameters") /\ result.kind = "ok")
       => /\ C12_BandOf(result.state["pigment_hydrology"], result.hydrology_state)
          /\ result.hydrology_details
  /\ IsCall("map_dissolution_parameters")
       => \A h \in BandGrid : C12_BandOf(h, HydrologyState([ pigment_hydrology |-> h ]))

\* A mapped state exactly on a band limit: 0.35 is wet_on_dry.
C12_Witness ==
  /\ IsCall("map_dissolution_parameters")
  /\ result.kind = "ok"
  /\ result.state["pigment_hydrology"] = 350000
  /\ result.hydrology_state = "wet_on_dry"
  /\ result.hydrology_details

\* C13: for resolvable ids A, B and N >= 1, compute_dissolution_trajectory
\* returns exactly N + 1 samples with step i = 0..N in increasing order and
\* t = i / N, each state being interpolate(resolve(A), resolve(B), t); the
\* state at step 0 equals resolve(A) and the state at step N equals
\* resolve(B) on every coordinate (values as returned, to 4 decimals).
C13_Interpolated(a, b, i, n, k) ==
  100 * RoundDiv(n * a[k] + i * (b[k] - a[k]), 100 * n)

C13_TrajectorySamples ==
  (/\ IsCall("compute_dissolution_trajectory")
   /\ call.num_steps >= 1
   /\ resolve(heap, call.start_id) # NoDict
   /\ resolve(heap, call.end_id) # NoDict)
  => LET n == call.num_steps
         a == resolve(heap, call.start_id)[1]
         b == resolve(heap, call.end_id)[1]
     IN  /\ result.kind = "ok"
         /\ Len(result.trajectory) = n + 1
         /\ \A j \in 1..(n + 1) :
              /\ result.trajectory[j].step = j - 1
              /\ result.trajectory[j].t = 100 * RoundDiv((j - 1) * 10000, n)
              /\ \A k \in ParamSet :
                   result.trajectory[j].state[k] = C13_Interpolated(a, b, j - 1, n, k)
         /\ result.trajectory[1].state = a
         /\ result.trajectory[n + 1].state = b

\* A trajectory of 3 steps between two different points: thirds that do not
\* fall on 4 decimals, and both endpoints.
C13_Witness ==
  /\ IsCall("compute_dissolution_trajectory")
  /\ call.start_id = "editorial_wash" /\ call.end_id = "chromatic_flood"
  /\ call.num_steps = 3
  /\ result.kind = "ok"
  /\ Len(result.trajectory) = 4
  /\ result.trajectory[2].t = 333300
  /\ result.trajectory[4].state = DeclaredCenter("chromatic_flood")

\* The stride max(1, p // 4) of the decimation, and the steps it retains.
DecimationStride(p) == IF p \div 4 >= 1 THEN p \div 4 ELSE 1

RetainedSteps(p, c) == { s \in 0..(p * c - 1) : s % DecimationStride(p) = 0 }

RhythmicCallResolved ==
  /\ IsCall("generate_dissolution_rhythmic_sequence")
  /\ resolve(heap, call.state_a_id) # NoDict
  /\ resolve(heap, call.state_b_id) # NoDict

\* The number of output entries whose step lies in cycle k (k = 0, 1, ...).
EntriesOfCycle(k) ==
  Cardinality({ j \in 1..Len(result.sequence) :
                  /\ k * call.steps_per_cycle <= result.sequence[j].step
                  /\ result.sequence[j].step < (k + 1) * call.steps_per_cycle })

\* C14: generate_dissolution_rhythmic_sequence with period p >= 1 and c cycles
\* outputs, in increasing step order, exactly the steps s of 0..p*c-1 with
\* s mod max(1, p // 4) = 0, whatever the oscillation shape; total_steps is
\* p * c and sampled_keyframes is the length of the output sequence.
C14_DecimatedSteps ==
  (RhythmicCallResolved /\ call.steps_per_cycle >= 1)
  => LET p == call.steps_per_cycle
         c == call.num_cycles
         seq == result.sequence
     IN  /\ result.kind = "ok"
         /\ { seq[j].step : j \in 1..Len(seq) } = RetainedSteps(p, c)
         /\ \A j \in 1..(Len(seq) - 1) : seq[j].step < seq[j + 1].step
         /\ result.total_steps = p * c
         /\ result.sampled_keyframes = Len(seq)

\* A non-sinusoidal sequence of period 8 and 2 cycles: every second step.
C14_Witness ==
  /\ RhythmicCallResolved
  /\ call.steps_per_cycle = 8 /\ call.num_cycles = 2
  /\ call.oscillation_pattern = "triangle"
  /\ result.kind = "ok"
  /\ Len(result.sequence) = 8
  /\ result.sequence[2].step = 2
  /\ result.sequence[8].step = 14

\* C15 (as amended): the decimation retains every max(1, p // 4)-th step, so
\* the output has ceil(p * c / max(1, p // 4)) entries; a cycle contributes
\* exactly 4 of them when p is a multiple of 4, all of its p steps when
\* p < 4, and between 4 and 7 otherwise.
C15_EntriesPerCycle ==
  (RhythmicCallResolved /\ call.steps_per_cycle >= 1 /\ call.num_cycles >= 1)
  => LET p == call.steps_per_cycle
         c == call.num_cycles
         stride == DecimationStride(p)
     IN  /\ Len(result.sequence) = (p * c + stride - 1) \div stride
         /\ \A k \in 0..(c - 1) :
              /\ p % 4 = 0 => EntriesOfCycle(k) = 4
              /\ p < 4 => EntriesOfCycle(k) = p
              /\ p >= 4 => (4 <= EntriesOfCycle(k) /\ EntriesOfCycle(k) <= 7)
         /\ p % 4 = 0 => Len(result.sequence) = 4 * c

\* Period 5: the stride is 1 and each cycle contributes 5 entries.
C15_Witness ==
  /\ RhythmicCallResolved
  /\ call.steps_per_cycle = 5 /\ call.num_cycles = 2
  /\ result.kind = "ok"
  /\ Len(result.sequence) = 10
  /\ EntriesOfCycle(0) = 5 /\ EntriesOfCycle(1) = 5

\* C15 as stated: for every period p >= 1 and cycle count c >= 1 each cycle
\* contributes exactly 4 retained samples, so the output has 4 * c entries.
C15_Original ==
  (RhythmicCallResolved /\ call.steps_per_cycle >= 1 /\ call.num_cycles >= 1)
  => /\ \A k \in 0..(call.num_cycles - 1) : EntriesOfCycle(k) = 4
     /\ Len(result.sequence) = 4 * call.num_cycles

\* C16: for each of the 5 rhythmic presets, apply_dissolution_rhythmic_preset
\* resolves both endpoint ids to a point and returns a sequence of exactly
\* `period` entries with steps 0..period-1 in order, none skipped, each state
\* being interpolate(a, b, t) with the sinusoidal t of that step (t = 0.5 at
\* step 0); the period is an integer >= 1.
C16_PresetSequence ==
  (IsCall("apply_dissolution_rhythmic_preset") /\ call.preset_name \in PresetIdSet)
  => LET preset == RHYTHMIC_PRESETS[call.preset_name]
         period == preset.period
         a == resolve(heap, preset.state_a)
         b == resolve(heap, preset.state_b)
         seq == result.sequence
     IN  /\ result.kind = "ok"
         /\ a # NoDict /\ b # NoDict
         /\ HasAllKeys(a[1]) /\ HasAllKeys(b[1])
         /\ result.state_a = a[1] /\ result.state_b = b[1]
         /\ period \in Nat /\ period >= 1 /\ result.period = period
         /\ Len(seq) = period
         /\ \A j \in 1..Len(seq) :
              /\ seq[j].step = j - 1
              /\ seq[j].t = Round4(SinusoidalT(RoundDiv((j - 1) * ONE, period)))
              /\ \A k \in ParamSet :
                   Abs(seq[j].state[k]
                         - (a[1][k] + MulFix(seq[j].t, b[1][k] - a[1][k]))) <= 100
         /\ seq[1].t = 500000
         /\ seq[1].state = RoundState(lerp_state(a[1], b[1], 500000))
         /\ period % 4 = 0
              => /\ seq[period \div 4 + 1].t = 1000000
                 /\ seq[period \div 4 + 1].state = b[1]
                 /\ seq[period \div 2 + 1].t = 500000
                 /\ seq[3 * (period \div 4) + 1].t = 0
                 /\ seq[3 * (period \div 4) + 1].state = a[1]

\* fidelity_breathing: 20 entries, t = 0.5 at step 0 and t = 1.0 (the state of
\* full_dissolution) at step 5.
C16_Witness ==
  /\ IsCall("apply_dissolution_rhythmic_preset")
  /\ call.preset_name = "fidelity_breathing"
  /\ result.kind = "ok"
  /\ Len(result.sequence) = 20
  /\ result.sequence[1].t = 500000
  /\ result.sequence[6].t = 1000000
  /\ result.sequence[6].state = DeclaredCenter("full_dissolution")
  /\ result.sequence[20].step = 19

\* C17: enhance_dissolution_prompt always reports detected_style equal to the
\* classifier's primary_style for the text, whatever override is given;
\* applied_style is style_override when that is a known visual type id and
\* detected_style otherwise (no override, or an unknown one), so applied_style
\* is always a known visual type and the parameters, keywords and prompt are
\* those of applied_style.
C17_ClassifierChoice(text) ==
  IF \A tid \in TypeIdSet : C4_Count(tid, text) = 0 THEN "contested_boundary"
  ELSE CHOOSE top \in TypeIdSet :
         /\ \A tid \in TypeIdSet : C4_Count(tid, text) <= C4_Count(top, text)
         /\ \A tid \in TypeIdSet :
              C4_TypeIndex(tid) < C4_TypeIndex(top)
                => C4_Count(tid, text) < C4_Count(top, text)

C17_DetectedAndAppliedStyle ==
  IsCall("enhance_dissolution_prompt")
  => LET applied == result.applied_style
     IN  /\ result.kind = "ok"
         /\ result.detected_style = C17_ClassifierChoice(call.user_intent)
         /\ applied = (IF call.style_override \in TypeIdSet THEN call.style_override
                       ELSE result.detected_style)
         /\ applied \in TypeIdSet
         /\ result.style_name = TYPE_NAMES[applied]
         /\ result.keywords = TYPE_KEYWORDS[applied]
         /\ result.prompt.mode_of = applied
         /\ result.vocabulary_of = applied
         /\ \A k \in ParamSet :
              result.state[k] =
                (IF call.intensity = "dramatic"
                 THEN C1_Expected(applied, "dramatic", "balanced", k)
                 ELSE DeclaredCenter(applied)[k])

\* An override that is a visual type other than the detected one.
C17_Witness ==
  /\ IsCall("enhance_dissolution_prompt")
  /\ call.style_override = "chromatic_flood"
  /\ result.kind = "ok"
  /\ result.detected_style = "ghost_impression"
  /\ result.applied_style = "chromatic_flood"
  /\ result.style_name = "Chromatic Flood"

\* C18: for every description, each coordinate of the point produced by
\* decompose_dissolution_from_description is a convex combination of the 6
\* type centers (weights non-negative and summing to 1) and so lies between
\* the minimum and the maximum of that coordinate over the 6 centers:
\* dissolution_rate in [0.15, 0.90], edge_coherence in [0.15, 0.85],
\* substrate_visibility in [0.10, 0.85], pigment_hydrology in [0.10, 0.95],
\* anchor_density in [0.10, 0.90].  (Weights and coordinates as returned, to
\* 4 decimals: the weights sum to 1 within 6 half units of the last decimal.)
C18_CenterValues(k) == { DeclaredCenter(tid)[k] : tid \in TypeIdSet }

C18_Lowest(k) == CHOOSE v \in C18_CenterValues(k) : \A w \in C18_CenterValues(k) : v <= w

C18_Highest(k) == CHOOSE v \in C18_CenterValues(k) : \A w \in C18_CenterValues(k) : v >= w

C18_Box ==
  [ dissolution_rate     |-> << 150000, 900000 >>,
    edge_coherence       |-> << 150000, 850000 >>,
    substrate_visibility |-> << 100000, 850000 >>,
    pigment_hydrology    |-> << 100000, 950000 >>,
    anchor_density       |-> << 100000, 900000 >> ]

RECURSIVE C18_Combination(_, _, _)
C18_Combination(weights, k, i) ==
  IF i > Len(TYPE_IDS) THEN 0
  ELSE MulFix(weights[TYPE_IDS[i]], DeclaredCenter(TYPE_IDS[i])[k])
       + C18_Combination(weights, k, i + 1)

RECURSIVE C18_Sum(_, _)
C18_Sum(weights, i) ==
  IF i > Len(TYPE_IDS) THEN 0 ELSE weights[TYPE_IDS[i]] + C18_Sum(weights, i + 1)

C18_ConvexCombinationInBox ==
  IsCall("decompose_dissolution_from_description")
  => /\ result.kind = "ok"
     /\ \A tid \in TypeIdSet : result.type_weights[tid] >= 0
     /\ Abs(C18_Sum(result.type_weights, 1) - 1000000) <= 300
     /\ \A k \in ParamSet :
          /\ Abs(result.coordinates[k] - C18_Combination(result.type_weights, k, 1))
               <= 400
          /\ C18_Box[k] = << C18_Lowest(k), C18_Highest(k) >>
          /\ C18_Box[k][1] <= result.coordinates[k]
          /\ result.coordinates[k] <= C18_Box[k][2]

\* A description that puts nearly all the weight on chromatic_flood: the
\* point is near that center and still inside the box.
C18_Witness ==
  /\ IsCall("decompose_dissolution_from_description")
  /\ result.kind = "ok"
  /\ result.detected
  /\ result.type_weights["chromatic_flood"] > 900000
  /\ result.coordinates["pigment_hydrology"] > 900000
  /\ result.coordinates["pigment_hydrology"] < 950000

\* C19: no operation modifies the taxonomy tables.  After any sequence of
\* calls the coordinate dicts of VISUAL_TYPES and CANONICAL_STATES (which
\* ATTRACTOR_PRESETS and the canonical states of the visual types refer to)
\* hold their initial values, map_dissolution_parameters having scaled and
\* clamped a copy; and the answer of a call is the one its arguments give on
\* the initial tables, whatever calls came before.
C19_AnswerOnInitialTables ==
  LET h == InitialPoints
      c == call
  IN  CASE c.op = "classify_dissolution_intent" -> ClassifyResult(h, c.user_intent)
        [] c.op = "map_dissolution_parameters" ->
             MapResult(h, c.style_id, c.intensity, c.emphasis, c.substrate)
        [] c.op = "get_dissolution_style_details" -> StyleDetailsResult(h, c.style_id)
        [] c.op = "extract_dissolution_visual_vocabulary" ->
             VocabularyResult(h, c.state, c.dissolution_id, c.strength)
        [] c.op = "compute_dissolution_distance" -> DistanceResult(h, c.id_1, c.id_2)
        [] c.op = "compute_dissolution_trajectory" ->
             TrajectoryResult(h, c.start_id, c.end_id, c.num_steps)
        [] c.op = "generate_dissolution_attractor_prompt" ->
             AttractorPromptResult(h, c.attractor_id, c.custom_state, c.mode,
                                   c.style_modifier, c.keyframe_count)
        [] c.op = "generate_dissolution_rhythmic_sequence" ->
             RhythmicSequenceResult(h, c.state_a_id, c.state_b_id, c.steps_per_cycle,
                                    c.num_cycles, c.oscillation_pattern, c.phase_offset)
        [] c.op = "apply_dissolution_rhythmic_preset" -> RhythmicPresetResult(h, c.preset_name)
        [] c.op = "generate_dissolution_sequence_prompts" ->
             SequencePromptsResult(h, c.preset_name, c.keyframe_count, c.style_modifier)
        [] c.op = "decompose_dissolution_from_description" ->
             DecomposeResult(h, c.description)
        [] c.op = "enhance_dissolution_prompt" ->
             EnhanceResult(h, c.user_intent, c.style_override, c.substrate, c.intensity)
        [] c.op = "validate_dissolution_decomposition_round_trip" -> RoundTripResult(h)
        [] OTHER -> [ kind |-> "none" ]

C19_TablesNeverModified ==
  /\ heap = InitialPoints
  /\ pc = "returned" => result = C19_AnswerOnInitialTables

\* map_dissolution_parameters has answered with a state that is not the
\* center of its type, and the center is what it was.
C19_Witness ==
  /\ IsCall("map_dissolution_parameters")
  /\ result.kind = "ok"
  /\ call.intensity = "dramatic"
  /\ result.state # RoundState(DeclaredCenter(call.style_id))
  /\ heap[VISUAL_TYPES[call.style_id].center] = DeclaredCenter(call.style_id)

\* C20: identifiers and the three tables that share the id-space.  The
\* statement that no identifier is a key of more than one of VISUAL_TYPES,
\* CANONICAL_STATES and ATTRACTOR_PRESETS is C20_Original.  What holds: each
\* of the 6 visual type ids is also a key of CANONICAL_STATES, whose entry
\* refers to the type's own center dict, so a shared id names one point
\* whichever table answers; the 4 other canonical ids and the 7 attractor
\* preset ids are keys of one table only.
C20_TablesWithKey(id) ==
  { name \in { "VISUAL_TYPES", "CANONICAL_STATES", "ATTRACTOR_PRESETS" } :
      \/ name = "VISUAL_TYPES" /\ id \in DOMAIN VISUAL_TYPES
      \/ name = "CANONICAL_STATES" /\ id \in DOMAIN CANONICAL_STATES
      \/ name = "ATTRACTOR_PRESETS" /\ id \in DOMAIN ATTRACTOR_PRESETS }

C20_AllIds == DOMAIN VISUAL_TYPES \cup DOMAIN CANONICAL_STATES \cup DOMAIN ATTRACTOR_PRESETS

C20_Original ==
  \A id \in C20_AllIds :
    (IsCall("compute_dissolution_distance") /\ id \in { call.id_1, call.id_2 })
    => Cardinality(C20_TablesWithKey(id)) <= 1

C20_SharedIdsNameOnePoint ==
  /\ \A id \in DOMAIN VISUAL_TYPES :
       /\ C20_TablesWithKey(id) = { "VISUAL_TYPES", "CANONICAL_STATES" }
       /\ CANONICAL_STATES[id].coordinates = VISUAL_TYPES[id].center
       /\ resolve(heap, id) = Some(heap[VISUAL_TYPES[id].center])
  /\ \A id \in C20_AllIds \ DOMAIN VISUAL_TYPES :
       Cardinality(C20_TablesWithKey(id)) = 1
  /\ Cardinality(DOMAIN CANONICAL_STATES) = 10
  /\ Cardinality(C20_AllIds) = 17
  /\ (IsCall("compute_dissolution_distance")
      /\ call.id_1 \in DOMAIN VISUAL_TYPES
      /\ resolve(heap, call.id_2) # NoDict)
     => /\ result.kind = "ok"
        /\ \A k \in ParamSet :
             result.per_axis_difference[k]
               = Round4(resolve(heap, call.id_2)[1][k] - DeclaredCenter(call.id_1)[k])

\* The distance from a visual type id to the canonical state of the same
\* name, asked for with one id: both resolve to the type's center.
C20_Witness ==
  /\ IsCall("compute_dissolution_distance")
  /\ call.id_1 = "chromatic_flood"
  /\ call.id_2 = call.id_1
  /\ Cardinality(C20_TablesWithKey(call.id_1)) = 2
  /\ result.kind = "ok"
  /\ result.distance = 0

\* C21: round trip.  For at least 4 of the 6 visual types, decomposing the
\* description made by joining the type's own 8 keyword phrases with blanks
\* gives a point whose nearest visual type is that type; the validator
\* reports it per type and as nearest_type_accuracy.
C21_Recovered ==
  { tid \in TypeIdSet :
      DecomposeResult(heap, RoundTripDescription(tid)).nearest_type = tid }

C21_RoundTripMajority ==
  IsCall("validate_dissolution_decomposition_round_trip")
  => /\ Cardinality(C21_Recovered) >= 4
     /\ \A tid \in TypeIdSet :
          /\ Len(KEYWORD_PHRASES[tid]) = 8
          /\ result.per_type_results[tid].nearest_type_correct = (tid \in C21_Recovered)
     /\ result.nearest_type_accuracy
          = Round4(RoundDiv(Cardinality(C21_Recovered) * ONE, 6))

\* The validator has run, and a type whose keywords also score for other
\* types (chromatic_flood: full_dissolution scores 4) is recovered.
C21_Witness ==
  /\ IsCall("validate_dissolution_decomposition_round_trip")
  /\ result.per_type_results["chromatic_flood"].nearest_type_correct
  /\ result.per_type_results["chromatic_flood"].reconstruction_error > 0
  /\ result.nearest_type_accuracy >= 666700

\* C22: nearest_type scans the 6 visual types in declaration order with a
\* strict < comparison: the type it returns is at minimal Euclidean distance
\* from the point, every type declared before it is strictly farther, and
\* the id and the distance are those the point alone determines.  Checked on
\* the points the operations hand to it: the custom states of the attractor
\* prompt, the states of the mapper and the samples of the trajectories.
C22_TypeIndex(tid) == CHOOSE i \in 1..Len(TYPE_IDS) : TYPE_IDS[i] = tid

C22_SquareTo(p, tid) == SumSquares(p, DeclaredCenter(tid), 1)

C22_FirstNearest(p, id) ==
  /\ id \in TypeIdSet
  /\ \A tid \in TypeIdSet :
       /\ ~WideLess(C22_SquareTo(p, tid), C22_SquareTo(p, id))
       /\ C22_TypeIndex(tid) < C22_TypeIndex(id)
          => WideLess(C22_SquareTo(p, id), C22_SquareTo(p, tid))

\* The points whose nearest type the returned record shows, with the type.
C22_Answers ==
  IF result.kind # "ok" THEN { }
  ELSE CASE call.op = "generate_dissolution_attractor_prompt"
              /\ call.mode = "composite" /\ call.custom_state \notin { NoDict, Some(<< >>) } ->
              { << call.custom_state[1], result.nearest_type >> }
         [] call.op = "extract_dissolution_visual_vocabulary"
              /\ call.state \notin { NoDict, Some(<< >>) }
              /\ call.dissolution_id \notin DOMAIN CANONICAL_STATES ->
              { << call.state[1], result.nearest_visual_type >> }
         [] call.op = "compute_dissolution_trajectory" ->
              { << lerp_state(resolve(heap, call.start_id)[1], resolve(heap, call.end_id)[1],
                              RoundDiv((j - 1) * ONE, call.num_steps)),
                   result.trajectory[j].nearest_type >> : j \in 1..Len(result.trajectory) }
         [] OTHER -> { }

C22_NearestIsFirstMinimal ==
  pc = "returned"
  => \A a \in C22_Answers :
       /\ C22_FirstNearest(a[1], a[2])
       /\ nearest_visual_type(heap, a[1]).id = a[2]
       /\ nearest_visual_type(heap, a[1]).dist = euclidean_distance(a[1], DeclaredCenter(a[2]))

\* Two types are at the minimal distance from the custom state, and the
\* first declared of them is returned.
C22_Witness ==
  /\ IsCall("generate_dissolution_attractor_prompt")
  /\ result.kind = "ok"
  /\ call.mode = "composite"
  /\ call.custom_state = Some(Pt(85, 5, 45, 60, 0))
  /\ C22_SquareTo(call.custom_state[1], "full_dissolution")
       = C22_SquareTo(call.custom_state[1], "chromatic_flood")
  /\ result.nearest_type = "full_dissolution"

\* C23: in the vocabulary synthesizer only types among the 3 of highest
\* weight contribute, and of these only the ones whose weight exceeds 0.1;
\* each contributing type adds one phrase to each of the edge, substrate and
\* hydrology lists, chosen from the center of that type (edge_coherence
\* > 0.7 / > 0.4 / else, substrate_visibility > 0.7 / > 0.3 / else,
\* pigment_hydrology > 0.7 / > 0.3 / else) and not from the query point; the
\* three lists have the same length, between 1 and 3.
C23_VocabularyAnswered ==
  IsCall("extract_dissolution_visual_vocabulary") /\ result.kind = "ok"

C23_Ladder(v, high, low, above, between, below) ==
  IF v > high THEN above ELSE IF v > low THEN between ELSE below

C23_ContributorsAndPhrases ==
  C23_VocabularyAnswered
  => LET v == result.vocabulary_by_category
         w == VocabularyWeights(heap, result.input_state)
         n == Len(v.edge_character)
         Heavy == { tid \in TypeIdSet : w[tid] > 100000 }
     IN  /\ n \in 1..3
         /\ Len(v.substrate_character) = n
         /\ Len(v.hydrology_character) = n
         /\ n = Min2(3, Cardinality(Heavy))
         /\ \A i, j \in 1..n : i # j => v.edge_character[i].from # v.edge_character[j].from
         /\ \A j \in 1..n :
              LET tid == v.edge_character[j].from
                  c == DeclaredCenter(tid)
              IN  /\ tid \in Heavy
                  /\ Cardinality({ b \in TypeIdSet : w[b] > w[tid] }) < 3
                  /\ v.substrate_character[j].from = tid
                  /\ v.hydrology_character[j].from = tid
                  /\ v.edge_character[j].phrase
                       = C23_Ladder(c.edge_coherence, 700000, 400000,
                                    "architectural hard edges", "mixed edge negotiation",
                                    "feathered bleed edges")
                  /\ v.substrate_character[j].phrase
                       = C23_Ladder(c.substrate_visibility, 700000, 300000,
                                    "paper dominant", "paper partially visible",
                                    "substrate hidden")
                  /\ v.hydrology_character[j].phrase
                       = C23_Ladder(c.pigment_hydrology, 700000, 300000,
                                    "wet flooding behavior", "controlled wash",
                                    "dry technique")

\* A query point with five types above 0.1: three contribute, and the third
\* phrase of the edge list is not the one the query point's own
\* edge_coherence would choose.
C23_Witness ==
  /\ C23_VocabularyAnswered
  /\ Cardinality({ tid \in TypeIdSet :
                     VocabularyWeights(heap, result.input_state)[tid] > 100000 }) = 5
  /\ Len(result.vocabulary_by_category.edge_character) = 3
  /\ result.vocabulary_by_category.edge_character[3].phrase
       # EdgePhrase(result.input_state)

\* C27: the fallback phrases of the vocabulary synthesizer ("balanced edge
\* mix", "moderate paper visibility", "controlled wash behavior") are never
\* emitted: the highest softmax weight over the 6 types is at least 1/6,
\* above 0.1, so the nearest type contributes the first phrase of each of the
\* edge, substrate and hydrology lists.
C27_Fallbacks ==
  { "balanced edge mix", "moderate paper visibility", "controlled wash behavior" }

C27_FallbackNeverEmitted ==
  C23_VocabularyAnswered
  => LET v == result.vocabulary_by_category
         w == VocabularyWeights(heap, result.input_state)
         lists == << v.edge_character, v.substrate_character, v.hydrology_character >>
     IN  /\ \E tid \in TypeIdSet : 6 * w[tid] >= ONE - 60
         /\ w[result.nearest_visual_type] > 100000
         /\ \A i \in 1..3 :
              /\ \A j \in 1..Len(lists[i]) :
                   lists[i][j].phrase \notin C27_Fallbacks /\ lists[i][j].from # None
              /\ lists[i][1].from = result.nearest_visual_type

\* A query point far from every type: the six weights are nearly equal, none
\* reaches 0.2, and the lists still come from the types.
C27_Witness ==
  /\ C23_VocabularyAnswered
  /\ \A tid \in TypeIdSet :
       /\ VocabularyWeights(heap, result.input_state)[tid] > 150000
       /\ VocabularyWeights(heap, result.input_state)[tid] < 200000
  /\ result.vocabulary_by_category.edge_character[1].from = result.nearest_visual_type
  /\ result.vocabulary_by_category.edge_character[1].phrase \notin C27_Fallbacks

\* C24: in generate_dissolution_rhythmic_sequence, with c = (step mod
\* period) / period, the triangle shape gives t = 2c when c < 0.5 and
\* t = 2(1 - c) otherwise, and the sawtooth shape gives t = c; for both t is
\* in [0, 1] at every step, so every sampled state lies coordinate by
\* coordinate between the two endpoint states and inside the unit cube.
C24_T(pattern, step, p) ==
  LET s == step % p
  IN  IF pattern = "sawtooth" THEN RoundDiv(s * ONE, p)
      ELSE IF 2 * s < p THEN RoundDiv(2 * s * ONE, p)
      ELSE RoundDiv(2 * (p - s) * ONE, p)

C24_TriangleAndSawtooth ==
  (RhythmicCallResolved /\ call.oscillation_pattern \in { "triangle", "sawtooth" })
  => LET p == call.steps_per_cycle
         a == resolve(heap, call.state_a_id)[1]
         b == resolve(heap, call.state_b_id)[1]
         seq == result.sequence
     IN  /\ result.kind = "ok"
         /\ \A step \in 0..(p * call.num_cycles - 1) :
              LET t == OscillationT(call.oscillation_pattern, step, p, call.phase_offset)
              IN  0 <= t /\ t <= ONE /\ Abs(t - C24_T(call.oscillation_pattern, step, p)) <= 1
         /\ \A j \in 1..Len(seq) :
              /\ seq[j].t = Round4(C24_T(call.oscillation_pattern, seq[j].step, p))
              /\ \A k \in ParamSet :
                   /\ Min2(a[k], b[k]) <= seq[j].state[k]
                   /\ seq[j].state[k] <= Max2(a[k], b[k])
                   /\ 0 <= seq[j].state[k] /\ seq[j].state[k] <= ONE

\* A triangle of period 8 past its peak: step 6 has c = 0.75 and t = 0.5,
\* and the sampled state is strictly between the endpoints.
C24_Witness ==
  /\ RhythmicCallResolved
  /\ call.oscillation_pattern = "triangle"
  /\ call.steps_per_cycle = 8 /\ call.num_cycles >= 1
  /\ call.state_a_id # call.state_b_id
  /\ result.sequence[4].step = 6
  /\ result.sequence[4].t = 500000
  /\ result.sequence[3].t = ONE
  /\ result.sequence[4].state # result.sequence[1].state

\* C25: for every input text the suggested_hydrology returned by
\* classify_dissolution_intent is a key of HYDROLOGY_STATES and the
\* suggested_substrate is a key of SUBSTRATE_TYPES.
C25_HintsAreCatalogKeys ==
  IsCall("classify_dissolution_intent")
  => /\ result.suggested_hydrology \in HYDROLOGY_STATES
     /\ result.suggested_substrate \in SUBSTRATE_TYPES

\* C26 as stated: every id present in any catalog resolves to the same point
\* in every operation, vocabulary extraction included: called with such an id
\* and no state, extract_dissolution_visual_vocabulary answers for the point
\* the three-catalog lookup of the id gives.
C26_Original ==
  ( /\ IsCall("extract_dissolution_visual_vocabulary")
    /\ call.state = NoDict
    /\ call.dissolution_id \in C20_AllIds )
  => /\ result.kind = "ok"
     /\ result.input_state = resolve(heap, call.dissolution_id)[1]

\* C26: the lookup orders agree wherever they find the id.  For each of the
\* 17 ids the order canonical state, visual type, attractor preset (distance,
\* trajectory, rhythmic sequence) and the order attractor preset, visual type,
\* canonical state (attractor prompt without a custom state) give the same
\* point; the order canonical state, visual type (vocabulary extraction) gives
\* that point for the 10 canonical and type ids and finds none of the 7
\* attractor preset ids: it then uses the state it was given, or answers with
\* the missing-input error.
C26_PromptLookup(id) == AttractorState(heap, id, NoDict)

C26_OrdersAgree ==
  /\ \A id \in C20_AllIds :
       /\ resolve(heap, id) # NoDict
       /\ C26_PromptLookup(id) = resolve(heap, id)[1]
       /\ \A state \in DictInputs :
            VocabularyState(heap, state, id) =
              IF id \in DOMAIN ATTRACTOR_PRESETS THEN state ELSE resolve(heap, id)
  /\ ( /\ IsCall("generate_dissolution_attractor_prompt")
       /\ ~Truthy(call.custom_state)
       /\ call.attractor_id \in C20_AllIds
       /\ call.mode \in { "composite", "split_view" } )
     => /\ result.kind = "ok"
        /\ result.state = RoundState(resolve(heap, call.attractor_id)[1])
  /\ ( /\ IsCall("extract_dissolution_visual_vocabulary")
       /\ call.dissolution_id \in DOMAIN CANONICAL_STATES \cup DOMAIN VISUAL_TYPES )
     => /\ result.kind = "ok"
        /\ result.input_state = resolve(heap, call.dissolution_id)[1]
  /\ ( /\ IsCall("extract_dissolution_visual_vocabulary")
       /\ call.dissolution_id \in DOMAIN ATTRACTOR_PRESETS )
     => IF call.state = NoDict THEN result.kind = "error"
        ELSE result.kind = "ok" => result.input_state = call.state[1]
  /\ ( /\ IsCall("compute_dissolution_distance")
       /\ call.id_1 \in C20_AllIds
       /\ call.id_2 \in C20_AllIds )
     => /\ result.kind = "ok"
        /\ result.distance =
             Round4(euclidean_distance(C26_PromptLookup(call.id_1),
                                       C26_PromptLookup(call.id_2)))

\* An attractor prompt was returned for an id that is a key of two catalogs,
\* looked up with no custom state.
C26_Witness ==
  /\ IsCall("generate_dissolution_attractor_prompt")
  /\ ~Truthy(call.custom_state)
  /\ call.attractor_id \in DOMAIN VISUAL_TYPES \cap DOMAIN CANONICAL_STATES
  /\ call.mode = "composite"
  /\ result.kind = "ok"
  /\ result.state = RoundState(resolve(heap, call.attractor_id)[1])

\* C28: in enhance_dissolution_prompt the prompt and the vocabulary are
\* computed from the applied style's center alone: a call that differs from
\* the returned one only in intensity, or only in substrate, returns the same
\* prompt and the same vocabulary, whatever parameter state, edge modes,
\* hydrology state and contrast curve the two calls return; both are those of
\* the attractor prompt and of the vocabulary extraction for the style id.
C28_Intensities == { "subtle", "moderate", "dramatic", "extreme" }

C28_Substrates == { None, "rough", "yupo", "nope" }

C28_OtherCall(substrate, intensity) == EnhanceResult(heap, call.user_intent, call.style_override, substrate, intensity)

C28_PromptAndVocabularyFromCenter ==
  ( IsCall("enhance_dissolution_prompt") /\ result.kind = "ok" )
  => /\ \A intensity \in C28_Intensities :
          LET other == C28_OtherCall(call.substrate, intensity)
          IN  /\ other.kind = "ok"
              /\ other.prompt = result.prompt
              /\ other.vocabulary = result.vocabulary
     /\ \A substrate \in C28_Substrates :
          LET other == C28_OtherCall(substrate, call.intensity)
          IN  /\ other.kind = "ok"
              /\ other.prompt = result.prompt
              /\ other.vocabulary = result.vocabulary
     /\ result.prompt =
          AttractorPromptResult(heap, result.applied_style, NoDict,
                                "composite", "", 4).prompt
     /\ result.vocabulary =
          VocabularyByCategory(heap, heap[VISUAL_TYPES[result.applied_style].center])

\* A returned call for which another intensity gives another parameter
\* state, other edge modes, another hydrology state and another contrast
\* curve, and still the same prompt and vocabulary.
C28_Witness ==
  /\ IsCall("enhance_dissolution_prompt")
  /\ result.kind = "ok"
  /\ \E intensity \in C28_Intensities :
       LET other == C28_OtherCall(call.substrate, intensity)
       IN  /\ other.kind = "ok"
           /\ other.state # result.state
           /\ other.active_edge_modes # result.active_edge_modes
           /\ other.hydrology_state # result.hydrology_state
           /\ other.contrast_curve # result.contrast_curve
           /\ other.prompt = result.prompt
           /\ other.vocabulary = result.vocabulary

\* C29: map_dissolution_parameters never selects granulation_curve: for every
\* style, intensity and emphasis, and for every state of [0, 1]^5, the curve
\* is one of anchor_contrast, flood_flat, high_key_dissolution, lifted_wash
\* and photographic_preserved, each a key of CONTRAST_CURVES, which has 6
\* entries.
C29_Selected ==
  { "anchor_contrast", "flood_flat", "high_key_dissolution", "lifted_wash",
    "photographic_preserved" }

\* The states of [0, 1]^5 the branches are evaluated on: each coordinate a
\* condition reads takes the ends of [0, 1] and both sides of its limits.
C29_States ==
  { [ dissolution_rate |-> d, edge_coherence |-> 500000, substrate_visibility |-> s,
      pigment_hydrology |-> p, anchor_density |-> a ] :
      d \in { 0, 600000, 600001, 800000, 800001, ONE },
      s \in { 0, 600000, 600001, ONE },
      p \in { 0, 299999, 800000, 800001, ONE },
      a \in { 0, 700000, 700001, ONE } }

C29_GranulationCurveNeverSelected ==
  ( ( IsCall("map_dissolution_parameters") \/ IsCall("enhance_dissolution_prompt") )
    /\ result.kind = "ok" )
  => /\ result.contrast_curve \in C29_Selected
     /\ result.contrast_curve # "granulation_curve"
     /\ ContrastCurve(result.state) = result.contrast_curve
     /\ { ContrastCurve(state) : state \in C29_States } = C29_Selected
     /\ C29_Selected \subseteq CONTRAST_CURVES
     /\ "granulation_curve" \in CONTRAST_CURVES
     /\ Cardinality(CONTRAST_CURVES) = 6

\* A mapped state with a visible substrate and little water got lifted_wash.
C29_Witness ==
  /\ IsCall("map_dissolution_parameters")
  /\ result.kind = "ok"
  /\ result.state["substrate_visibility"] > 600000
  /\ result.state["pigment_hydrology"] < 300000
  /\ result.contrast_curve = "lifted_wash"

\* C30: when the description matches no fragment of any family,
\* decompose_dissolution_from_description gives each of the 6 types the
\* weight 1/6 (0.1667), returns the arithmetic mean of the 6 centers as
\* coordinates, confidence 0, detected = false, no matched fragment, and
\* contested_boundary as nearest type: the type the classifier returns by
\* default, when a text has none of its terms either.
C30_NothingMatches ==
  /\ IsCall("decompose_dissolution_from_description")
  /\ \A tid \in TypeIdSet : result.type_scores[tid] = 0

RECURSIVE C30_CenterSum(_, _)
C30_CenterSum(k, i) ==
  IF i > Len(TYPE_IDS) THEN 0
  ELSE heap[VISUAL_TYPES[TYPE_IDS[i]].center][k] + C30_CenterSum(k, i + 1)

C30_MeanOfCenters == [ k \in ParamSet |-> Round4(RoundDiv(C30_CenterSum(k, 1), 6)) ]

C30_ClassifierDefaults(text) == \A tid \in TypeIdSet : ClassifyResult(heap, text).type_scores[tid] = 0

====
